---- MODULE Spec2Model ----
(***************************************************************************)
(* DetectorGraph: a model of the evaluation engine (Graph, Topic,          *)
(* Detector, GraphInputQueue, TimeoutPublisherService) of the full (STL)   *)
(* build.                                                                  *)
(*                                                                         *)
(* One EvaluateGraph call is modelled as a forced sequence of steps: the   *)
(* prologue (sort when dirty, clear contexts, dequeue one input), one      *)
(* ProcessVertex step per vertex of mVertices, and ComposeOutputList.  The *)
(* program is single threaded, so no other operation runs between these    *)
(* steps.                                                                  *)
(***************************************************************************)
EXTENDS Integers, Sequences, FiniteSets, TLC

----------------------------------------------------------------------------
(* Bounds of the model *)

\* total number of entries ever put into the input queue
MaxInputs == 2
\* number of distinct topic-state values ever created
MaxVal == 4
\* number of detectors the application constructs with its graph
MaxInitial == 2
\* number of detector constructions and destructions made later
MaxOps == 1
\* number of outputs (Publish, PublishOnFutureEvaluation, PublishOnTimeout)
\* one detector produces during one ProcessVertex
MaxPublish == 2
\* number of edges inserted by hand between test vertices
MaxEdges == 3

----------------------------------------------------------------------------
(* The topic-state types and the detector classes used to build graphs *)

Topics == {"In", "A", "B"}

Detectors == {"Splitter", "Relay", "Fwd", "Rev"}

Vertices == Topics \cup Detectors

\* What each detector class does in its constructor: the Subscribe calls in
\* order, then the SetupPublishing calls in order, then the
\* SetupFuturePublishing and SetupTimeoutPublishing calls.
\*   Splitter  In -> A, B
\*   Relay     A -> B
\*   Fwd       subscribes A then B, publishes In (closes a cycle when a path
\*             leads from In to A or B)
\*   Rev       subscribes B then A, future- and timeout-publishes In
DetectorDefs ==
    [d \in Detectors |->
        CASE d = "Splitter" -> [subs |-> <<"In">>,     pubs |-> <<"A", "B">>, futs |-> <<>>,     tmo |-> <<>>]
          [] d = "Relay"    -> [subs |-> <<"A">>,      pubs |-> <<"B">>,      futs |-> <<>>,     tmo |-> <<>>]
          [] d = "Fwd"      -> [subs |-> <<"A", "B">>, pubs |-> <<"In">>,     futs |-> <<>>,     tmo |-> <<>>]
          [] d = "Rev"      -> [subs |-> <<"B", "A">>, pubs |-> <<>>,         futs |-> <<"In">>, tmo |-> <<"In">>]]

\* Vertex::VertexSearchState
kVertexClear == "Clear"
kVertexProcessing == "Processing"
kVertexDone == "Done"

\* ErrorType
ErrorType_Success == "Success"
ErrorType_BadConfiguration == "BadConfiguration"

\* what the last completed call returned
Returned(call, r) == [call |-> call, r |-> r]

\* an empty slot of mTimeoutDispatchers
NULL == [topic |-> "none", data |-> 0]

----------------------------------------------------------------------------
VARIABLES
    mVertices,           \* Graph::mVertices, the (sorted) vertex list
    mNeedsSorting,       \* Graph::mNeedsSorting
    mState,              \* Vertex::mState of every vertex
    mOutEdges,           \* Vertex::mOutEdges of every vertex
    mInDispatchers,      \* Detector::mInDispatchers: the subscribed topics in order
    mCurrentValues,      \* Topic<T>::mCurrentValues
    mInputQueue,         \* GraphInputQueue::mInputQueue
    mOutputList,         \* Graph::mOutputList
    mTimeoutDispatchers, \* TimeoutPublisherService::mTimeoutDispatchers
    mDefaultHandle,      \* TimeoutPublisher::mDefaultHandle of the Rev detector
    pc,                  \* position inside EvaluateGraph: idle or traverse
    it,                  \* the iterator of TraverseVertices (index into mVertices)
    ret,                 \* the EvaluateGraph / TopoSortGraph call that has just returned, with its
                         \* return value; call "none" when the last operation was another one
    nextVal,             \* next fresh topic-state value
    nOps,                \* detector constructions and destructions after start-up
    inserted,            \* history: every entry enqueued so far, in enqueue order
    consumed,            \* history: every entry dequeued so far, in dequeue order
    dequeued,            \* entries dequeued by the current / last EvaluateGraph call
    pubLog,              \* values published to each topic during the current / last call
    evalLog,             \* detector callbacks run during the current / last call
    detectorMState,      \* the member a detector keeps between passes:
                         \* LoopTestDetector::mState.mV, EventCountDetector::mEventCount.count
    mTimerDeadlines,     \* TestTimeoutPublisherService::mTimerDeadlines
    mElapsedTime,        \* TestTimeoutPublisherService::mElapsedTime
    mMetronomePeriodMsec,  \* TimeoutPublisherService::mMetronomePeriodMsec
    mMetronomeTimerPeriod, \* TestTimeoutPublisherService::mMetronomeTimerPeriod
    mPeriodicSeries,     \* TimeoutPublisherService::mPeriodicSeries
    armings,             \* history: every ScheduleTimeout made, with what became of it
    app,                 \* the application's main(): which program runs and where it is
    cout                 \* what ProcessOutput has written to std::cout, line by line

vars == <<mVertices, mNeedsSorting, mState, mOutEdges, mInDispatchers,
          mCurrentValues, mInputQueue, mOutputList, mTimeoutDispatchers,
          mDefaultHandle, pc, it, ret, nextVal, nOps, inserted, consumed,
          dequeued, pubLog, evalLog, detectorMState, mTimerDeadlines,
          mElapsedTime, mMetronomePeriodMsec, mMetronomeTimerPeriod,
          mPeriodicSeries, armings, app, cout>>

\* the variables of the test timeout service, of the periodic series and of
\* the application programs
extVars == <<mTimerDeadlines, mElapsedTime, mMetronomePeriodMsec,
             mMetronomeTimerPeriod, mPeriodicSeries, armings, app, cout>>

\* TimeoutPublisherService(graph) as constructed (mMetronomePeriodMsec(0), no
\* series), no platform timer set, no application program running
ServiceAndApplicationUnused ==
    /\ mTimerDeadlines = <<>>
    /\ mElapsedTime = 0
    /\ mMetronomePeriodMsec = 0
    /\ mMetronomeTimerPeriod = 0
    /\ mPeriodicSeries = <<>>
    /\ armings = <<>>
    /\ app = [program |-> "none"]
    /\ cout = <<>>

----------------------------------------------------------------------------
(* Helpers for std::list / std::vector *)

Range(s) == {s[i] : i \in 1..Len(s)}

\* std::list::remove(value): drops every element equal to x
RECURSIVE Remove(_, _)
Remove(s, x) ==
    IF s = <<>> THEN <<>>
    ELSE IF Head(s) = x THEN Remove(Tail(s), x)
    ELSE <<Head(s)>> \o Remove(Tail(s), x)

\* position of the first occurrence of x in s, 0 when absent
IndexOf(s, x) ==
    IF x \in Range(s) THEN CHOOSE i \in 1..Len(s) : s[i] = x /\ \A j \in 1..(i-1) : s[j] # x
    ELSE 0

\* sequences over S of length at most n
RECURSIVE SeqsUpTo(_, _)
SeqsUpTo(S, n) ==
    IF n = 0 THEN {<<>>}
    ELSE LET shorter == SeqsUpTo(S, n - 1)
         IN shorter \cup {Append(s, x) : s \in shorter, x \in S}

----------------------------------------------------------------------------
(* Graph: vertices and topological sort *)

\* Graph::ResolveTopic on the vertex list: a topic is created and added as a
\* vertex on first use
ResolveTopic(verts, t) ==
    IF t \in Range(verts) THEN verts ELSE Append(verts, t)

RECURSIVE ResolveTopics(_, _)
ResolveTopics(verts, ts) ==
    IF ts = <<>> THEN verts
    ELSE ResolveTopics(ResolveTopic(verts, Head(ts)), Tail(ts))

\* Mutant of ClearTraverseContexts: topics keep their state
ClearTraverseContexts_DetectorsOnly(verts, state) ==
    [v \in DOMAIN state |-> IF v \in Range(verts) /\ v \in Detectors
                            THEN kVertexClear ELSE state[v]]

\* Graph::ClearTraverseContexts: every vertex of the vertex list becomes Clear
ClearTraverseContexts(verts, state) ==
    [v \in DOMAIN state |-> IF v \in Range(verts) THEN kVertexClear ELSE state[v]]

\* Graph::DFS_visit.  ctx = [r, state, sorted]; DFS_edges is the for loop
\* over v's out edges starting at position i.
RECURSIVE DFS_visit(_, _, _), DFS_edges(_, _, _, _)

\* Mutant of DFS_edges: an edge to a Processing vertex is skipped like an
\* edge to a Done vertex
RECURSIVE DFS_edges_NoCycleCheck(_, _, _, _)
DFS_edges_NoCycleCheck(edges, v, i, ctx) ==
    IF i > Len(edges[v]) THEN ctx
    ELSE LET w == edges[v][i]
         IN IF ctx.state[w] = kVertexClear
            THEN LET sub == DFS_visit(edges, w, ctx)
                 IN IF sub.r # ErrorType_Success THEN sub
                    ELSE DFS_edges_NoCycleCheck(edges, v, i + 1, sub)
            ELSE DFS_edges_NoCycleCheck(edges, v, i + 1, ctx)

\* Mutant of DFS_visit: a finished vertex is pushed to the back of the
\* sorted list
DFS_visit_PushBack(edges, v, ctx) ==
    LET entered == [ctx EXCEPT !.state[v] = kVertexProcessing]
        after == DFS_edges(edges, v, 1, entered)
    IN IF after.r # ErrorType_Success THEN after
       ELSE [after EXCEPT !.state[v] = kVertexDone,
                          !.sorted = after.sorted \o <<v>>]

DFS_visit(edges, v, ctx) ==
    LET entered == [ctx EXCEPT !.state[v] = kVertexProcessing]
        after == DFS_edges(edges, v, 1, entered)
    IN IF after.r # ErrorType_Success THEN after
       ELSE [after EXCEPT !.state[v] = kVertexDone,
                          !.sorted = <<v>> \o after.sorted]

DFS_edges(edges, v, i, ctx) ==
    IF i > Len(edges[v]) THEN ctx
    ELSE LET w == edges[v][i]
         IN IF ctx.state[w] = kVertexClear
            THEN LET sub == DFS_visit(edges, w, ctx)
                 IN IF sub.r # ErrorType_Success THEN sub
                    ELSE DFS_edges(edges, v, i + 1, sub)
            ELSE IF ctx.state[w] = kVertexProcessing
            THEN [ctx EXCEPT !.r = ErrorType_BadConfiguration]
            ELSE DFS_edges(edges, v, i + 1, ctx)

\* the outer loop of Graph::TopoSortGraph over the vertex list
RECURSIVE TopoSortLoop(_, _, _, _)
TopoSortLoop(verts, edges, i, ctx) ==
    IF i > Len(verts) THEN ctx
    ELSE IF ctx.state[verts[i]] = kVertexClear
    THEN LET sub == DFS_visit(edges, verts[i], ctx)
         IN IF sub.r # ErrorType_Success THEN sub
            ELSE TopoSortLoop(verts, edges, i + 1, sub)
    ELSE TopoSortLoop(verts, edges, i + 1, ctx)

\* Mutant of TopoSortGraph: the search starts from the states the vertices
\* were left in
TopoSortGraph_NoClear(verts, edges, state, dirty) ==
    LET start == [r |-> ErrorType_Success, state |-> state, sorted |-> <<>>]
        done == TopoSortLoop(verts, edges, 1, start)
    IN IF done.r # ErrorType_Success
       THEN [r |-> done.r, state |-> done.state,
             vertices |-> verts, needsSorting |-> dirty]
       ELSE IF Len(done.sorted) # Len(verts)
       THEN [r |-> ErrorType_BadConfiguration, state |-> done.state,
             vertices |-> verts, needsSorting |-> dirty]
       ELSE [r |-> ErrorType_Success, state |-> done.state,
             vertices |-> done.sorted, needsSorting |-> FALSE]

\* Graph::TopoSortGraph: result [r, state, vertices, needsSorting]
TopoSortGraph(verts, edges, state, dirty) ==
    LET start == [r |-> ErrorType_Success,
                  state |-> ClearTraverseContexts(verts, state),
                  sorted |-> <<>>]
        done == TopoSortLoop(verts, edges, 1, start)
    IN IF done.r # ErrorType_Success
       THEN [r |-> done.r, state |-> done.state,
             vertices |-> verts, needsSorting |-> dirty]
       ELSE IF Len(done.sorted) # Len(verts)
       THEN [r |-> ErrorType_BadConfiguration, state |-> done.state,
             vertices |-> verts, needsSorting |-> dirty]
       ELSE [r |-> ErrorType_Success, state |-> done.state,
             vertices |-> done.sorted, needsSorting |-> FALSE]

----------------------------------------------------------------------------
(* Topic<T> *)

\* Mutant of Topic_Publish: the first publish of a pass does not clear
Topic_Publish_NoClear(c, t, v) ==
    [c EXCEPT !.values[t] = Append(@, v), !.state[t] = kVertexProcessing]

\* Topic::Publish on c = [values, state]: the first publish of a pass clears
\* what the topic still holds and marks it Processing, every publish appends
Topic_Publish(c, t, v) ==
    LET cleared == IF c.state[t] # kVertexProcessing
                   THEN [c EXCEPT !.values[t] = <<>>,
                                  !.state[t] = kVertexProcessing]
                   ELSE c
    IN [cleared EXCEPT !.values[t] = Append(@, v)]

\* Mutant of MarkChildrenState: only the first out edge is marked
MarkChildrenState_FirstOnly(state, edges, t, aNewState) ==
    [v \in DOMAIN state |-> IF edges[t] # <<>> /\ v = Head(edges[t])
                        THEN aNewState ELSE state[v]]

\* BaseTopic::MarkChildrenState
MarkChildrenState(state, edges, t, aNewState) ==
    [v \in DOMAIN state |-> IF v \in Range(edges[t]) THEN aNewState ELSE state[v]]

\* Mutant of Topic_ProcessVertex: a Clear topic keeps its values
Topic_ProcessVertex_KeepValues(c, edges, t) ==
    IF c.state[t] = kVertexProcessing
    THEN [c EXCEPT !.state =
             MarkChildrenState([c.state EXCEPT ![t] = kVertexDone],
                               edges, t, kVertexProcessing)]
    ELSE c

\* Mutant of Topic_ProcessVertex: a topic nobody published to is marked Done
Topic_ProcessVertex_DoneWhenClear(c, edges, t) ==
    IF c.state[t] = kVertexProcessing
    THEN [c EXCEPT !.state =
             MarkChildrenState([c.state EXCEPT ![t] = kVertexDone],
                               edges, t, kVertexProcessing)]
    ELSE [c EXCEPT !.values[t] = <<>>, !.state[t] = kVertexDone]

\* Mutant of Topic_ProcessVertex: a processed topic goes back to Clear and
\* drops its values once its children are marked
Topic_ProcessVertex_ResetsToClear(c, edges, t) ==
    IF c.state[t] = kVertexProcessing
    THEN [c EXCEPT !.state =
             MarkChildrenState([c.state EXCEPT ![t] = kVertexClear],
                               edges, t, kVertexProcessing),
                   !.values[t] = <<>>]
    ELSE [c EXCEPT !.values[t] = <<>>]

\* Topic::ProcessVertex on c = [values, state]
Topic_ProcessVertex(c, edges, t) ==
    LET cleared == IF c.state[t] = kVertexClear
                   THEN [c EXCEPT !.values[t] = <<>>]
                   ELSE c
    IN IF cleared.state[t] = kVertexProcessing
       THEN [cleared EXCEPT !.state =
                MarkChildrenState([cleared.state EXCEPT ![t] = kVertexDone],
                                  edges, t, kVertexProcessing)]
       ELSE cleared

\* Topic::HasNewValue
HasNewValue(t) == mState[t] = kVertexDone

\* Topic::GetCurrentTopicStates: one output entry per held value, in order
GetCurrentTopicStates(values, t) ==
    [i \in 1..Len(values[t]) |-> [topic |-> t, data |-> values[t][i]]]

----------------------------------------------------------------------------
(* Detector *)

Callback(d, cb, t, v) == [det |-> d, cb |-> cb, topic |-> t, data |-> v]

\* Mutant of DispatchIntoSubscriber: only the newest value is dispatched
DispatchIntoSubscriber_NewestOnly(values, state, t, d) ==
    IF state[t] = kVertexDone /\ values[t] # <<>>
    THEN <<Callback(d, "Evaluate", t, values[t][Len(values[t])])>>
    ELSE <<>>

\* Topic::DispatchIntoSubscriber: the Evaluate calls made on subscriber d
DispatchIntoSubscriber(values, state, t, d) ==
    IF state[t] = kVertexDone
    THEN [i \in 1..Len(values[t]) |-> Callback(d, "Evaluate", t, values[t][i])]
    ELSE <<>>

\* the for loop of Detector::ProcessVertex over mInDispatchers
RECURSIVE DispatchAll(_, _, _, _)
DispatchAll(values, state, dispatchers, d) ==
    IF dispatchers = <<>> THEN <<>>
    ELSE DispatchIntoSubscriber(values, state, Head(dispatchers), d)
         \o DispatchAll(values, state, Tail(dispatchers), d)

\* Mutant of Detector_Callbacks: the dispatchers are walked back to front
Detector_Callbacks_Reversed(values, state, dispatchers, d) ==
    IF state[d] = kVertexProcessing
    THEN <<Callback(d, "BeginEvaluation", "none", 0)>>
         \o DispatchAll(values, state,
                        [i \in 1..Len(dispatchers) |-> dispatchers[Len(dispatchers) + 1 - i]], d)
         \o <<Callback(d, "CompleteEvaluation", "none", 0)>>
    ELSE <<>>

\* Detector::ProcessVertex: the callbacks made, in order (none unless the
\* detector is Processing)
Detector_Callbacks(values, state, dispatchers, d) ==
    IF state[d] = kVertexProcessing
    THEN <<Callback(d, "BeginEvaluation", "none", 0)>>
         \o DispatchAll(values, state, dispatchers, d)
         \o <<Callback(d, "CompleteEvaluation", "none", 0)>>
    ELSE <<>>

\* Mutant of Detector_ProcessVertex: the detector is never marked Done
Detector_ProcessVertex_NoDone(state, d) == state

\* Detector::ProcessVertex: the detector's state afterwards
Detector_ProcessVertex(state, d) ==
    IF state[d] = kVertexProcessing
    THEN [state EXCEPT ![d] = kVertexDone]
    ELSE state

----------------------------------------------------------------------------
(* What a detector's callbacks may do: Publish to a topic it set up for     *)
(* publishing, PublishOnFutureEvaluation, PublishOnTimeout.                 *)

RECURSIVE SeqToOps(_, _)
SeqToOps(kind, ts) ==
    IF ts = <<>> THEN {}
    ELSE {[kind |-> kind, topic |-> Head(ts)]} \cup SeqToOps(kind, Tail(ts))

OutputOps(d) ==
    SeqToOps("Publish", DetectorDefs[d].pubs)
    \cup SeqToOps("Future", DetectorDefs[d].futs)
    \cup SeqToOps("Timeout", DetectorDefs[d].tmo)

\* GraphInputQueue::Enqueue (Graph::PushData after ResolveTopic)
Enqueue(queue, t, v) == Append(queue, [topic |-> t, data |-> v])

\* A wrong ScheduleTimeoutDispatcher: one slot shared by all the handles
ScheduleTimeoutDispatcher_SharedSlot(dispatchers, t, v, aHandle) ==
    [i \in DOMAIN dispatchers |-> [topic |-> t, data |-> v]]

\* TimeoutPublisherService::ScheduleTimeoutDispatcher; handles count from 0
ScheduleTimeoutDispatcher(dispatchers, t, v, aHandle) ==
    [dispatchers EXCEPT ![aHandle + 1] = [topic |-> t, data |-> v]]

\* One output of a detector applied to the pass context
\* c = [values, state, queue, inserted, timeouts, next, pubLog, ok].
ApplyOp(c, op) ==
    IF ~c.ok \/ c.next > MaxVal THEN [c EXCEPT !.ok = FALSE]
    ELSE IF op.kind = "Publish"
    THEN LET p == Topic_Publish([values |-> c.values, state |-> c.state],
                                op.topic, c.next)
         IN [c EXCEPT !.values = p.values, !.state = p.state,
                      !.pubLog[op.topic] = Append(@, c.next),
                      !.next = @ + 1]
    ELSE IF op.kind = "Future"
    THEN IF Len(c.inserted) >= MaxInputs THEN [c EXCEPT !.ok = FALSE]
         ELSE [c EXCEPT !.queue = Enqueue(@, op.topic, c.next),
                        !.inserted = Append(@, [topic |-> op.topic, data |-> c.next, src |-> "future"]),
                        !.next = @ + 1]
    ELSE \* PublishOnTimeout on the detector's default handle
         IF c.timeouts[mDefaultHandle + 1] # NULL THEN [c EXCEPT !.ok = FALSE]
         ELSE [c EXCEPT !.timeouts = ScheduleTimeoutDispatcher(@, op.topic, c.next, mDefaultHandle),
                        !.next = @ + 1]

RECURSIVE ApplyPlan(_, _)
ApplyPlan(c, plan) ==
    IF plan = <<>> THEN c
    ELSE ApplyPlan(ApplyOp(c, Head(plan)), Tail(plan))

----------------------------------------------------------------------------
(* Construction of detectors *)

\* Vertex::InsertEdge from every topic of ts to detector d (Detector::Subscribe)
RECURSIVE SubscribeEdges(_, _, _)
SubscribeEdges(edges, ts, d) ==
    IF ts = <<>> THEN edges
    ELSE SubscribeEdges([edges EXCEPT ![Head(ts)] = Append(@, d)], Tail(ts), d)

\* Mutant of Construct: SetupFuturePublishing and SetupTimeoutPublishing
\* record an immediate out-edge (InsertEdge) instead of a future edge
Construct_FutureEdgesImmediate(g, d) ==
    LET def == DetectorDefs[d]
    IN [vertices |-> ResolveTopics(Append(g.vertices, d),
                                   def.subs \o def.pubs \o def.futs \o def.tmo),
        edges |-> [SubscribeEdges(g.edges, def.subs, d)
                      EXCEPT ![d] = def.pubs \o def.futs \o def.tmo],
        dispatchers |-> [g.dispatchers EXCEPT ![d] = def.subs],
        timeouts |-> IF def.tmo # <<>> THEN Append(g.timeouts, NULL) ELSE g.timeouts,
        defaultHandle |-> IF def.tmo # <<>> THEN Len(g.timeouts) ELSE g.defaultHandle]

\* Detector::Detector followed by the subclass constructor, on
\* g = [vertices, edges, dispatchers, timeouts, defaultHandle]:
\* AddVertex(this), Subscribe for every subscribed type, SetupPublishing for
\* every published type, SetupFuturePublishing and SetupTimeoutPublishing
\* (TimeoutPublisher::SetTimeoutService -> GetUniqueTimerHandle)
Construct(g, d) ==
    LET def == DetectorDefs[d]
    IN [vertices |-> ResolveTopics(Append(g.vertices, d),
                                   def.subs \o def.pubs \o def.futs \o def.tmo),
        edges |-> [SubscribeEdges(g.edges, def.subs, d) EXCEPT ![d] = def.pubs],
        dispatchers |-> [g.dispatchers EXCEPT ![d] = def.subs],
        timeouts |-> IF def.tmo # <<>> THEN Append(g.timeouts, NULL) ELSE g.timeouts,
        defaultHandle |-> IF def.tmo # <<>> THEN Len(g.timeouts) ELSE g.defaultHandle]

RECURSIVE ConstructAll(_, _)
ConstructAll(g, ds) ==
    IF ds = <<>> THEN g
    ELSE ConstructAll(Construct(g, Head(ds)), Tail(ds))

\* the detectors an application constructs together with its graph: any
\* detectors, in any order
InitialDetectors ==
    {ds \in SeqsUpTo(Detectors, MaxInitial) : Cardinality(Range(ds)) = Len(ds)}

----------------------------------------------------------------------------
(* Initial state: Graph() and TimeoutPublisherService() constructed, then   *)
(* the detectors of the application                                        *)

Init ==
    /\ \E ds \in InitialDetectors :
          LET g == ConstructAll([vertices |-> <<>>,
                                 edges |-> [v \in Vertices |-> <<>>],
                                 dispatchers |-> [d \in Detectors |-> <<>>],
                                 timeouts |-> <<>>,
                                 defaultHandle |-> -1], ds)
          IN /\ mVertices = g.vertices
             /\ mOutEdges = g.edges
             /\ mInDispatchers = g.dispatchers
             /\ mTimeoutDispatchers = g.timeouts
             /\ mDefaultHandle = g.defaultHandle
             /\ mNeedsSorting = (ds # <<>>)
    /\ mState = [v \in Vertices |-> kVertexClear]
    /\ mCurrentValues = [t \in Topics |-> <<>>]
    /\ mInputQueue = <<>>
    /\ mOutputList = <<>>
    /\ pc = "idle"
    /\ it = 0
    /\ ret = Returned("none", ErrorType_Success)
    /\ nextVal = 1
    /\ nOps = 0
    /\ inserted = <<>>
    /\ consumed = <<>>
    /\ dequeued = <<>>
    /\ pubLog = [t \in Topics |-> <<>>]
    /\ evalLog = <<>>
    /\ detectorMState = <<>>
    /\ ServiceAndApplicationUnused

passLogs == <<dequeued, pubLog, evalLog>>
timerVars == <<mTimeoutDispatchers, mDefaultHandle>>
topicVars == <<mCurrentValues, mOutputList>>

----------------------------------------------------------------------------
(* Operations called between evaluations *)

\* Graph::PushData<T>(data) called by the application
PushData(t) ==
    /\ pc = "idle"
    /\ Len(inserted) < MaxInputs
    /\ nextVal <= MaxVal
    /\ mVertices' = ResolveTopic(mVertices, t)
    /\ mNeedsSorting' = (mNeedsSorting \/ t \notin Range(mVertices))
    /\ mInputQueue' = Enqueue(mInputQueue, t, nextVal)
    /\ inserted' = Append(inserted, [topic |-> t, data |-> nextVal, src |-> "push"])
    /\ nextVal' = nextVal + 1
    /\ ret' = Returned("none", ErrorType_Success)
    /\ UNCHANGED <<extVars, detectorMState, mState, mOutEdges, mInDispatchers, topicVars, timerVars,
                   pc, it, nOps, consumed, passLogs>>

\* A wrong NewDetector: AddVertex leaves mNeedsSorting as it is
NewDetector_KeepsNeedsSorting(d) ==
    /\ pc = "idle"
    /\ d \notin Range(mVertices)
    /\ nOps < MaxOps
    /\ LET g == Construct([vertices |-> mVertices, edges |-> mOutEdges,
                           dispatchers |-> mInDispatchers,
                           timeouts |-> mTimeoutDispatchers,
                           defaultHandle |-> mDefaultHandle], d)
       IN /\ mVertices' = g.vertices
          /\ mOutEdges' = g.edges
          /\ mInDispatchers' = g.dispatchers
          /\ mTimeoutDispatchers' = g.timeouts
          /\ mDefaultHandle' = g.defaultHandle
    /\ mState' = [mState EXCEPT ![d] = kVertexClear]
    /\ mNeedsSorting' = mNeedsSorting
    /\ nOps' = nOps + 1
    /\ ret' = Returned("none", ErrorType_Success)
    /\ UNCHANGED <<extVars, detectorMState, topicVars, mInputQueue, pc, it, nextVal, inserted,
                   consumed, passLogs>>

\* Detector::Detector followed by the subclass constructor: AddVertex(this),
\* Subscribe for every subscribed type, SetupPublishing for every published
\* type, SetupFuturePublishing and SetupTimeoutPublishing
NewDetector(d) ==
    /\ pc = "idle"
    /\ d \notin Range(mVertices)
    /\ nOps < MaxOps
    /\ LET g == Construct([vertices |-> mVertices, edges |-> mOutEdges,
                           dispatchers |-> mInDispatchers,
                           timeouts |-> mTimeoutDispatchers,
                           defaultHandle |-> mDefaultHandle], d)
       IN /\ mVertices' = g.vertices
          /\ mOutEdges' = g.edges
          /\ mInDispatchers' = g.dispatchers
          /\ mTimeoutDispatchers' = g.timeouts
          /\ mDefaultHandle' = g.defaultHandle
    /\ mState' = [mState EXCEPT ![d] = kVertexClear]
    /\ mNeedsSorting' = TRUE
    /\ nOps' = nOps + 1
    /\ ret' = Returned("none", ErrorType_Success)
    /\ UNCHANGED <<extVars, detectorMState, topicVars, mInputQueue, pc, it, nextVal, inserted,
                   consumed, passLogs>>

\* Vertex::RemoveEdge(d) on every topic of ts (the loop of Detector::~Detector)
RECURSIVE UnsubscribeEdges(_, _, _)
UnsubscribeEdges(edges, ts, d) ==
    IF ts = <<>> THEN edges
    ELSE UnsubscribeEdges([edges EXCEPT ![Head(ts)] = Remove(@, d)], Tail(ts), d)

\* Detector::~Detector
DeleteDetector(d) ==
    /\ pc = "idle"
    /\ d \in Range(mVertices)
    /\ nOps < MaxOps
    /\ mOutEdges' = [UnsubscribeEdges(mOutEdges, mInDispatchers[d], d) EXCEPT ![d] = <<>>]
    /\ mInDispatchers' = [mInDispatchers EXCEPT ![d] = <<>>]
    /\ mVertices' = Remove(mVertices, d)
    /\ mState' = [mState EXCEPT ![d] = kVertexClear]
    /\ mNeedsSorting' = TRUE
    /\ nOps' = nOps + 1
    /\ ret' = Returned("none", ErrorType_Success)
    /\ UNCHANGED <<extVars, detectorMState, topicVars, mInputQueue, timerVars, pc, it, nextVal,
                   inserted, consumed, passLogs>>

\* Graph::TopoSortGraph called directly
CallTopoSortGraph ==
    /\ pc = "idle"
    /\ LET ts == TopoSortGraph(mVertices, mOutEdges, mState, mNeedsSorting)
       IN /\ mVertices' = ts.vertices
          /\ mState' = ts.state
          /\ mNeedsSorting' = ts.needsSorting
          /\ ret' = Returned("TopoSortGraph", ts.r)
    /\ UNCHANGED <<extVars, detectorMState, mOutEdges, mInDispatchers, topicVars, mInputQueue, timerVars,
                   pc, it, nextVal, nOps, inserted, consumed, passLogs>>

\* TimeoutPublisherService::TimeoutExpired(aHandle), called by the timer
\* integration when the timer of aHandle fires
TimeoutExpired(aHandle) ==
    /\ pc = "idle"
    /\ aHandle \in 0..(Len(mTimeoutDispatchers) - 1)
    /\ LET tDispatcher == mTimeoutDispatchers[aHandle + 1]
       IN IF tDispatcher # NULL
          THEN \* Dispatcher<T>::Dispatch -> Graph::PushData
               /\ Len(inserted) < MaxInputs
               /\ mInputQueue' = Enqueue(mInputQueue, tDispatcher.topic, tDispatcher.data)
               /\ inserted' = Append(inserted, [topic |-> tDispatcher.topic,
                                                data |-> tDispatcher.data, src |-> "timer"])
               /\ mTimeoutDispatchers' = [mTimeoutDispatchers EXCEPT ![aHandle + 1] = NULL]
          ELSE UNCHANGED <<mInputQueue, inserted, mTimeoutDispatchers>>
    /\ ret' = Returned("none", ErrorType_Success)
    /\ UNCHANGED <<extVars, detectorMState, mVertices, mNeedsSorting, mState, mOutEdges, mInDispatchers,
                   topicVars, mDefaultHandle, pc, it, nextVal, nOps,
                   consumed, passLogs>>

----------------------------------------------------------------------------
(* Graph::EvaluateGraph *)

\* Mutant of DequeueAndDispatch: every queued entry is dispatched
RECURSIVE DequeueAndDispatch_Drain(_)
DequeueAndDispatch_Drain(q) ==
    IF q.queue # <<>>
    THEN LET nextInput == Head(q.queue)
             p == Topic_Publish([values |-> q.values, state |-> q.state],
                                nextInput.topic, nextInput.data)
             rest == DequeueAndDispatch_Drain([queue |-> Tail(q.queue),
                                               values |-> p.values, state |-> p.state])
         IN [rest EXCEPT !.taken = <<nextInput>> \o @]
    ELSE [queue |-> q.queue, values |-> q.values, state |-> q.state,
          taken |-> <<>>]

\* Mutant of DequeueAndDispatch: the newest entry is taken (a stack)
DequeueAndDispatch_Back(q) ==
    IF q.queue # <<>>
    THEN LET nextInput == q.queue[Len(q.queue)]
             p == Topic_Publish([values |-> q.values, state |-> q.state],
                                nextInput.topic, nextInput.data)
         IN [queue |-> SubSeq(q.queue, 1, Len(q.queue) - 1),
             values |-> p.values, state |-> p.state, taken |-> <<nextInput>>]
    ELSE [queue |-> q.queue, values |-> q.values, state |-> q.state,
          taken |-> <<>>]

\* GraphInputQueue::DequeueAndDispatch on q = [queue, values, state]: takes
\* the front entry, if any, and publishes it to its topic
DequeueAndDispatch(q) ==
    IF q.queue # <<>>
    THEN LET nextInput == Head(q.queue)
             p == Topic_Publish([values |-> q.values, state |-> q.state],
                                nextInput.topic, nextInput.data)
         IN [queue |-> Tail(q.queue), values |-> p.values, state |-> p.state,
             taken |-> <<nextInput>>]
    ELSE [queue |-> q.queue, values |-> q.values, state |-> q.state,
          taken |-> <<>>]

RECURSIVE LogInputs(_, _)
LogInputs(log, taken) ==
    IF taken = <<>> THEN log
    ELSE LogInputs([log EXCEPT ![Head(taken).topic] = Append(@, Head(taken).data)],
                   Tail(taken))

\* Mutant of EvaluateGraph_Begin: the input is dequeued and dispatched
\* before the graph is sorted
EvaluateGraph_Begin_DispatchBeforeSort ==
    /\ pc = "idle"
    /\ LET dq == DequeueAndDispatch([queue |-> mInputQueue,
                                     values |-> mCurrentValues,
                                     state |-> mState])
           ts == IF mNeedsSorting
                 THEN TopoSortGraph(mVertices, mOutEdges, dq.state, mNeedsSorting)
                 ELSE [r |-> ErrorType_Success, state |-> dq.state,
                       vertices |-> mVertices, needsSorting |-> mNeedsSorting]
       IN /\ mCurrentValues' = dq.values
          /\ mInputQueue' = dq.queue
          /\ dequeued' = dq.taken
          /\ consumed' = consumed \o dq.taken
          /\ pubLog' = LogInputs([t \in DOMAIN pubLog |-> <<>>], dq.taken)
          /\ IF ts.r # ErrorType_Success
             THEN /\ mState' = ts.state
                  /\ ret' = Returned("EvaluateGraph", ts.r)
                  /\ UNCHANGED <<mVertices, mNeedsSorting, pc, it>>
             ELSE /\ mVertices' = ts.vertices
                  /\ mNeedsSorting' = ts.needsSorting
                  /\ mState' = ts.state
                  /\ pc' = "traverse"
                  /\ it' = 1
                  /\ ret' = Returned("none", ErrorType_Success)
    /\ evalLog' = <<>>
    /\ UNCHANGED <<extVars, detectorMState, mOutEdges, mInDispatchers, mOutputList, timerVars, nextVal,
                   nOps, inserted>>

\* EvaluateGraph up to the start of TraverseVertices: TopoSortGraph when the
\* graph needs sorting (returning its error when it fails),
\* ClearTraverseContexts, DequeueAndDispatch
EvaluateGraph_Begin ==
    /\ pc = "idle"
    /\ LET ts == IF mNeedsSorting
                 THEN TopoSortGraph(mVertices, mOutEdges, mState, mNeedsSorting)
                 ELSE [r |-> ErrorType_Success, state |-> mState,
                       vertices |-> mVertices, needsSorting |-> mNeedsSorting]
       IN IF ts.r # ErrorType_Success
          THEN /\ mState' = ts.state
               /\ ret' = Returned("EvaluateGraph", ts.r)
               /\ UNCHANGED <<mVertices, mNeedsSorting, mCurrentValues,
                              mInputQueue, pc, it, consumed>>
               /\ dequeued' = <<>>
               /\ pubLog' = [t \in DOMAIN pubLog |-> <<>>]
          ELSE LET cleared == ClearTraverseContexts(ts.vertices, ts.state)
                   dq == DequeueAndDispatch([queue |-> mInputQueue,
                                             values |-> mCurrentValues,
                                             state |-> cleared])
               IN /\ mVertices' = ts.vertices
                  /\ mNeedsSorting' = ts.needsSorting
                  /\ mState' = dq.state
                  /\ mCurrentValues' = dq.values
                  /\ mInputQueue' = dq.queue
                  /\ dequeued' = dq.taken
                  /\ consumed' = consumed \o dq.taken
                  /\ pubLog' = LogInputs([t \in DOMAIN pubLog |-> <<>>], dq.taken)
                  /\ pc' = "traverse"
                  /\ it' = 1
                  /\ ret' = Returned("none", ErrorType_Success)
    /\ evalLog' = <<>>
    /\ UNCHANGED <<extVars, detectorMState, mOutEdges, mInDispatchers, mOutputList, timerVars, nextVal,
                   nOps, inserted>>

\* One iteration of Graph::TraverseVertices on a topic: Topic::ProcessVertex
ProcessTopic(t) ==
    /\ LET p == Topic_ProcessVertex([values |-> mCurrentValues, state |-> mState],
                                    mOutEdges, t)
       IN /\ mCurrentValues' = p.values
          /\ mState' = p.state
    /\ UNCHANGED <<detectorMState, mInputQueue, inserted, timerVars, nextVal, pubLog, evalLog>>

\* One iteration of Graph::TraverseVertices on a detector:
\* Detector::ProcessVertex.  The outputs the detector's callbacks produce are
\* chosen freely among those the detector set up; they touch only topics the
\* detector publishes to, the input queue and the timeout service, never a
\* topic the detector is being dispatched from.
ProcessDetector(d) ==
    LET calls == Detector_Callbacks(mCurrentValues, mState, mInDispatchers[d], d)
        plans == IF calls = <<>> THEN {<<>>}
                 ELSE SeqsUpTo(OutputOps(d), MaxPublish)
    IN \E plan \in plans :
        LET c == ApplyPlan([values |-> mCurrentValues,
                            state |-> Detector_ProcessVertex(mState, d),
                            queue |-> mInputQueue, inserted |-> inserted,
                            timeouts |-> mTimeoutDispatchers, next |-> nextVal,
                            pubLog |-> pubLog, ok |-> TRUE], plan)
        IN /\ c.ok
           /\ evalLog' = evalLog \o calls
           /\ mCurrentValues' = c.values
           /\ mState' = c.state
           /\ mInputQueue' = c.queue
           /\ inserted' = c.inserted
           /\ mTimeoutDispatchers' = c.timeouts
           /\ nextVal' = c.next
           /\ pubLog' = c.pubLog
           /\ UNCHANGED <<mDefaultHandle, detectorMState>>

\* Graph::TraverseVertices, one iteration of its loop
TraverseVertices_Step ==
    /\ pc = "traverse"
    /\ it <= Len(mVertices)
    /\ IF mVertices[it] \in Topics
       THEN ProcessTopic(mVertices[it])
       ELSE ProcessDetector(mVertices[it])
    /\ it' = it + 1
    /\ UNCHANGED <<extVars, mVertices, mNeedsSorting, mOutEdges, mInDispatchers,
                   mOutputList, pc, ret, nOps, consumed, dequeued>>

\* Graph::ComposeOutputList: the topic states of every topic vertex, in
\* vertex-list order
RECURSIVE ComposeOutputList(_, _)
ComposeOutputList(verts, values) ==
    IF verts = <<>> THEN <<>>
    ELSE (IF Head(verts) \in DOMAIN values
          THEN GetCurrentTopicStates(values, Head(verts))
          ELSE <<>>)
         \o ComposeOutputList(Tail(verts), values)

\* A wrong end of EvaluateGraph: a pass that dequeued nothing returns without
\* composing the output list
EvaluateGraph_End_ComposeOnlyWithInput ==
    /\ pc = "traverse"
    /\ it > Len(mVertices)
    /\ mOutputList' = IF dequeued = <<>> THEN mOutputList
                      ELSE ComposeOutputList(mVertices, mCurrentValues)
    /\ pc' = "idle"
    /\ ret' = Returned("EvaluateGraph", ErrorType_Success)
    /\ UNCHANGED <<extVars, detectorMState, mVertices, mNeedsSorting, mState, mOutEdges, mInDispatchers,
                   mCurrentValues, mInputQueue, timerVars, it, nextVal, nOps,
                   inserted, consumed, passLogs>>

\* The end of EvaluateGraph: TraverseVertices has finished, ComposeOutputList
\* runs and EvaluateGraph returns success
EvaluateGraph_End ==
    /\ pc = "traverse"
    /\ it > Len(mVertices)
    /\ mOutputList' = ComposeOutputList(mVertices, mCurrentValues)
    /\ pc' = "idle"
    /\ ret' = Returned("EvaluateGraph", ErrorType_Success)
    /\ UNCHANGED <<extVars, detectorMState, mVertices, mNeedsSorting, mState, mOutEdges, mInDispatchers,
                   mCurrentValues, mInputQueue, timerVars, it, nextVal, nOps,
                   inserted, consumed, passLogs>>

----------------------------------------------------------------------------
Next ==
    \/ \E t \in Topics : PushData(t)
    \/ \E d \in Detectors : NewDetector(d)
    \/ \E d \in Detectors : DeleteDetector(d)
    \/ CallTopoSortGraph
    \/ \E h \in 0..(MaxInitial + MaxOps) : TimeoutExpired(h)
    \/ EvaluateGraph_Begin
    \/ TraverseVertices_Step
    \/ EvaluateGraph_End

Spec == Init /\ [][Next]_vars

TypeOK ==
    /\ Range(mVertices) \subseteq Vertices
    /\ Len(mVertices) = Cardinality(Range(mVertices))
    /\ pc \in {"idle", "traverse"}
    /\ Len(inserted) <= MaxInputs
    /\ nextVal <= MaxVal + 1

----------------------------------------------------------------------------
(* The graph driven through Graph::AddVertex / RemoveVertex and            *)
(* Vertex::InsertEdge / RemoveEdge on bare vertices, as the graph unit      *)
(* tests do (TestVertex: a vertex whose ProcessVertex does nothing).  A     *)
(* vertex exists whether or not it is in the vertex list, so an edge may    *)
(* lead out of the list.  Here evalLog is a history variable: it holds the  *)
(* edge removal, if any, that was made right after a failed TopoSortGraph   *)
(* or EvaluateGraph call and has been followed by such calls only.          *)

TestVertices == {"V1", "T1", "V2"}

NumEdges(edges) ==
    Cardinality({e \in TestVertices \X TestVertices : e[2] \in Range(edges[e[1]])})

SortInit ==
    /\ mVertices = <<>>
    /\ mOutEdges = [v \in TestVertices |-> <<>>]
    /\ mState = [v \in TestVertices |-> kVertexClear]
    /\ mNeedsSorting = FALSE
    /\ mInDispatchers = [d \in Detectors |-> <<>>]
    /\ mCurrentValues = [t \in Topics |-> <<>>]
    /\ mInputQueue = <<>>
    /\ mOutputList = <<>>
    /\ mTimeoutDispatchers = <<>>
    /\ mDefaultHandle = -1
    /\ pc = "idle"
    /\ it = 0
    /\ ret = Returned("none", ErrorType_Success)
    /\ nextVal = 1
    /\ nOps = 0
    /\ inserted = <<>>
    /\ consumed = <<>>
    /\ dequeued = <<>>
    /\ pubLog = [t \in Topics |-> <<>>]
    /\ evalLog = <<>>
    /\ detectorMState = <<>>
    /\ ServiceAndApplicationUnused

\* what the bare-vertex operations never touch
sortFrame == <<extVars, detectorMState, mInDispatchers, mCurrentValues, mInputQueue, mOutputList,
               mTimeoutDispatchers, mDefaultHandle, pc, it, nextVal, nOps,
               inserted, consumed, dequeued, pubLog>>

\* Graph::AddVertex
AddVertex(v) ==
    /\ v \notin Range(mVertices)
    /\ mVertices' = Append(mVertices, v)
    /\ mNeedsSorting' = TRUE
    /\ ret' = Returned("none", ErrorType_Success)
    /\ evalLog' = <<>>
    /\ UNCHANGED <<mState, mOutEdges, sortFrame>>

\* Graph::RemoveVertex
RemoveVertex(v) ==
    /\ v \in Range(mVertices)
    /\ mVertices' = Remove(mVertices, v)
    /\ mNeedsSorting' = TRUE
    /\ ret' = Returned("none", ErrorType_Success)
    /\ evalLog' = <<>>
    /\ UNCHANGED <<mState, mOutEdges, sortFrame>>

\* Vertex::InsertEdge: u.InsertEdge(&w)
InsertEdge(u, w) ==
    /\ u # w
    /\ w \notin Range(mOutEdges[u])
    /\ NumEdges(mOutEdges) < MaxEdges
    /\ mOutEdges' = [mOutEdges EXCEPT ![u] = Append(@, w)]
    /\ ret' = Returned("none", ErrorType_Success)
    /\ evalLog' = <<>>
    /\ UNCHANGED <<mVertices, mNeedsSorting, mState, sortFrame>>

\* Vertex::RemoveEdge: u.RemoveEdge(&w)
RemoveEdge(u, w) ==
    /\ w \in Range(mOutEdges[u])
    /\ mOutEdges' = [mOutEdges EXCEPT ![u] = Remove(@, w)]
    /\ ret' = Returned("none", ErrorType_Success)
    /\ evalLog' = IF ret.call # "none" /\ ret.r # ErrorType_Success
                  THEN <<[removed |-> <<u, w>>, after |-> ret.call]>>
                  ELSE <<>>
    /\ UNCHANGED <<mVertices, mNeedsSorting, mState, sortFrame>>

\* Graph::EvaluateGraph on test vertices: TopoSortGraph when the graph needs
\* sorting (returning its error), ClearTraverseContexts, DequeueAndDispatch
\* (the queue is empty), TraverseVertices (TestVertex::ProcessVertex does
\* nothing), ComposeOutputList (no topic vertex)
TestVertex_EvaluateGraph ==
    /\ pc = "idle"
    /\ LET ts == IF mNeedsSorting
                 THEN TopoSortGraph(mVertices, mOutEdges, mState, mNeedsSorting)
                 ELSE [r |-> ErrorType_Success, state |-> mState,
                       vertices |-> mVertices, needsSorting |-> mNeedsSorting]
       IN IF ts.r # ErrorType_Success
          THEN /\ mState' = ts.state
               /\ ret' = Returned("EvaluateGraph", ts.r)
               /\ UNCHANGED <<mVertices, mNeedsSorting>>
          ELSE /\ mVertices' = ts.vertices
               /\ mNeedsSorting' = ts.needsSorting
               /\ mState' = ClearTraverseContexts(ts.vertices, ts.state)
               /\ ret' = Returned("EvaluateGraph", ErrorType_Success)
    /\ UNCHANGED <<mOutEdges, evalLog, sortFrame>>

SortNext ==
    \/ \E v \in TestVertices : AddVertex(v)
    \/ \E v \in TestVertices : RemoveVertex(v)
    \/ \E u, w \in TestVertices : InsertEdge(u, w)
    \/ \E u, w \in TestVertices : RemoveEdge(u, w)
    \/ CallTopoSortGraph
    \/ TestVertex_EvaluateGraph

SortSpec == SortInit /\ [][SortNext]_vars

----------------------------------------------------------------------------
(* Lag<T> and the feedback loop of its unit test: LoopTestDetector          *)
(* subscribes StartTopicState and Lagged<LoopTopicState> and publishes      *)
(* LoopTopicState; Lag<LoopTopicState> subscribes LoopTopicState and        *)
(* future-publishes Lagged<LoopTopicState>.                                 *)

\* PushData<StartTopicState> calls the application makes
MaxStart == 2
\* LoopTestDetector instances constructed on the graph
MaxLoopDetectors == 2

LoopTestDetectorNames == <<"LoopTestDetector", "LoopTestDetector2", "LoopTestDetector3">>

LoopTestDetectors == {LoopTestDetectorNames[i] : i \in 1..MaxLoopDetectors}

LagTopics == {"StartTopicState", "LoopTopicState", "Lagged"}

LagVertices == LagTopics \cup LoopTestDetectors \cup {"Lag"}

\* Lagged<T>::Lagged(const T& a) : data(a)
Lagged(a) == [data |-> a]

\* LoopTestDetector::LoopTestDetector on g = [vertices, edges, dispatchers]
LoopTestDetector_Construct(g, d) ==
    [vertices |-> ResolveTopics(Append(g.vertices, d),
                                <<"StartTopicState", "Lagged", "LoopTopicState">>),
     edges |-> [SubscribeEdges(g.edges, <<"StartTopicState", "Lagged">>, d)
                   EXCEPT ![d] = <<"LoopTopicState">>],
     dispatchers |-> [g.dispatchers EXCEPT ![d] = <<"StartTopicState", "Lagged">>]]

\* Lag<LoopTopicState>::Lag: Subscribe<T>, SetupFuturePublishing<Lagged<T>>
Lag_Construct(g) ==
    [vertices |-> ResolveTopics(Append(g.vertices, "Lag"),
                                <<"LoopTopicState", "Lagged">>),
     edges |-> SubscribeEdges(g.edges, <<"LoopTopicState">>, "Lag"),
     dispatchers |-> [g.dispatchers EXCEPT !["Lag"] = <<"LoopTopicState">>]]

RECURSIVE LoopTestDetector_ConstructAll(_, _)
LoopTestDetector_ConstructAll(g, n) ==
    IF n = 0 THEN g
    ELSE LoopTestDetector_Construct(LoopTestDetector_ConstructAll(g, n - 1),
                                    LoopTestDetectorNames[n])

\* The start of Test_FeedbackLoop: Graph(), ResolveTopic<StartTopicState>,
\* ResolveTopic<Lagged<LoopTopicState>>, the LoopTestDetector (one instance
\* in the test, here one or more), ResolveTopic<LoopTopicState>, Lag
LagInit ==
    /\ \E n \in 1..MaxLoopDetectors :
          LET g == Lag_Construct(
                     LoopTestDetector_ConstructAll(
                        [vertices |-> <<"StartTopicState", "Lagged">>,
                         edges |-> [v \in LagVertices |-> <<>>],
                         dispatchers |-> [d \in LoopTestDetectors \cup {"Lag"} |-> <<>>]],
                        n))
          IN /\ mVertices = g.vertices
             /\ mOutEdges = g.edges
             /\ mInDispatchers = g.dispatchers
             /\ detectorMState = [d \in Range(g.vertices) \cap LoopTestDetectors |-> 0]
    /\ mNeedsSorting = TRUE
    /\ mState = [v \in LagVertices |-> kVertexClear]
    /\ mCurrentValues = [t \in LagTopics |-> <<>>]
    /\ mInputQueue = <<>>
    /\ mOutputList = <<>>
    /\ mTimeoutDispatchers = <<>>
    /\ mDefaultHandle = -1
    /\ pc = "idle"
    /\ it = 0
    /\ ret = Returned("none", ErrorType_Success)
    /\ nextVal = 1
    /\ nOps = 0
    /\ inserted = <<>>
    /\ consumed = <<>>
    /\ dequeued = <<>>
    /\ pubLog = [t \in LagTopics |-> <<>>]
    /\ evalLog = <<>>
    /\ ServiceAndApplicationUnused

\* the StartTopicState inputs pushed so far
Starts == SelectSeq(inserted, LAMBDA e : e.topic = "StartTopicState")

\* graph.PushData<StartTopicState>(0)
PushStart ==
    /\ pc = "idle"
    /\ Len(Starts) < MaxStart
    /\ mInputQueue' = Enqueue(mInputQueue, "StartTopicState", 0)
    /\ inserted' = Append(inserted, [topic |-> "StartTopicState", data |-> 0,
                                     src |-> "push"])
    /\ ret' = Returned("none", ErrorType_Success)
    /\ UNCHANGED <<extVars, mVertices, mNeedsSorting, mState, mOutEdges, mInDispatchers,
                   topicVars, timerVars, pc, it, nextVal, nOps, consumed,
                   passLogs, detectorMState>>

\* Publisher<LoopTopicState>::Publish on the pass context
\* c = [values, state, queue, inserted, mV, pubLog]
PublishLoop(c, v) ==
    LET p == Topic_Publish([values |-> c.values, state |-> c.state],
                           "LoopTopicState", v)
    IN [c EXCEPT !.values = p.values, !.state = p.state,
                 !.pubLog["LoopTopicState"] = Append(@, v)]

\* Mutant of LoopTestDetector_Evaluate: the value 5 is published too
LoopTestDetector_Evaluate_PublishesFive(c, call) ==
    IF call.topic = "StartTopicState"
    THEN PublishLoop([c EXCEPT !.mV[call.det] = 1], 1)
    ELSE LET v == call.data.data + 1
         IN IF v <= 5
            THEN PublishLoop([c EXCEPT !.mV[call.det] = v], v)
            ELSE [c EXCEPT !.mV[call.det] = v]

\* LoopTestDetector::Evaluate(const StartTopicState&) and
\* LoopTestDetector::Evaluate(const Lagged<LoopTopicState>&)
LoopTestDetector_Evaluate(c, call) ==
    IF call.topic = "StartTopicState"
    THEN PublishLoop([c EXCEPT !.mV[call.det] = 1], 1)
    ELSE LET v == call.data.data + 1
         IN IF v < 5
            THEN PublishLoop([c EXCEPT !.mV[call.det] = v], v)
            ELSE [c EXCEPT !.mV[call.det] = v]

\* Mutant of Lag_Evaluate: Lagged<T> is published into the current pass as
\* well as enqueued
Lag_Evaluate_PublishesNow(c, call) ==
    LET p == Topic_Publish([values |-> c.values, state |-> c.state],
                           "Lagged", Lagged(call.data))
    IN [c EXCEPT !.values = p.values, !.state = p.state,
                 !.queue = Enqueue(@, "Lagged", Lagged(call.data)),
                 !.inserted = Append(@, [topic |-> "Lagged",
                                         data |-> Lagged(call.data),
                                         src |-> "future"])]

\* Mutant of Lag_Evaluate: only a value above 1 is passed on
Lag_Evaluate_DropsFirst(c, call) ==
    IF call.data > 1
    THEN [c EXCEPT !.queue = Enqueue(@, "Lagged", Lagged(call.data)),
                   !.inserted = Append(@, [topic |-> "Lagged",
                                           data |-> Lagged(call.data),
                                           src |-> "future"])]
    ELSE c

\* Lag<T>::Evaluate(const T&): PublishOnFutureEvaluation(Lagged<T>(value)),
\* that is Graph::PushData<Lagged<T>>
Lag_Evaluate(c, call) ==
    [c EXCEPT !.queue = Enqueue(@, "Lagged", Lagged(call.data)),
              !.inserted = Append(@, [topic |-> "Lagged",
                                      data |-> Lagged(call.data),
                                      src |-> "future"])]

\* the Evaluate calls of Detector::ProcessVertex applied in order
RECURSIVE Evaluations(_, _)
Evaluations(c, calls) ==
    IF calls = <<>> THEN c
    ELSE LET call == Head(calls)
             after == IF call.cb # "Evaluate" THEN c
                      ELSE IF call.det = "Lag" THEN Lag_Evaluate(c, call)
                      ELSE LoopTestDetector_Evaluate(c, call)
         IN Evaluations(after, Tail(calls))

\* One iteration of Graph::TraverseVertices on a LoopTestDetector or on Lag:
\* Detector::ProcessVertex with the Evaluate methods of these classes
LagProcessDetector(d) ==
    LET calls == Detector_Callbacks(mCurrentValues, mState, mInDispatchers[d], d)
        c == Evaluations([values |-> mCurrentValues,
                          state |-> Detector_ProcessVertex(mState, d),
                          queue |-> mInputQueue, inserted |-> inserted,
                          mV |-> detectorMState, pubLog |-> pubLog], calls)
    IN /\ evalLog' = evalLog \o calls
       /\ mCurrentValues' = c.values
       /\ mState' = c.state
       /\ mInputQueue' = c.queue
       /\ inserted' = c.inserted
       /\ detectorMState' = c.mV
       /\ pubLog' = c.pubLog
       /\ UNCHANGED <<timerVars, nextVal>>

\* Graph::TraverseVertices, one iteration of its loop
LagTraverseVertices_Step ==
    /\ pc = "traverse"
    /\ it <= Len(mVertices)
    /\ IF mVertices[it] \in LagTopics
       THEN ProcessTopic(mVertices[it])
       ELSE LagProcessDetector(mVertices[it])
    /\ it' = it + 1
    /\ UNCHANGED <<extVars, mVertices, mNeedsSorting, mOutEdges, mInDispatchers,
                   mOutputList, pc, ret, nOps, consumed, dequeued>>

LagNext ==
    \/ PushStart
    \/ EvaluateGraph_Begin
    \/ LagTraverseVertices_Step
    \/ EvaluateGraph_End

LagSpec == LagInit /\ [][LagNext]_vars

\* The application's event loop: EvaluateGraph is called again and again
\* (six times in Test_FeedbackLoop) and every call runs to its end.  A call
\* can be made in every idle state and always starts a pass on this graph, so
\* weak fairness of the call is stated as: a pass is started again and again.
LagFairSpec ==
    /\ LagSpec
    /\ []<>(pc = "traverse")
    /\ WF_vars(LagTraverseVertices_Step)
    /\ WF_vars(EvaluateGraph_End)

----------------------------------------------------------------------------
(* The counter-with-reset example: EventCountDetector counts EventHappened, *)
(* resets on Reset and publishes EventCount in CompleteEvaluation;          *)
(* ResetDetector future-publishes Reset when the count reaches kMaxCount.   *)
(* Two programs drive it: main() of the example, a loop of ProcessData      *)
(* calls on the ProcessorContainer, and a loop of PushData; EvaluateGraph.  *)

\* iterations of the program's loop (7 in main())
MaxEvents == 7

\* ResetDetector::kMaxCount
kMaxCount == 5

CounterTopics == {"EventHappened", "Reset", "EventCount"}

CounterDetectors == {"EventCountDetector", "ResetDetector"}

CounterVertices == CounterTopics \cup CounterDetectors

\* EventCountDetector::EventCountDetector on g = [vertices, edges, dispatchers]
EventCountDetector_Construct(g) ==
    [vertices |-> ResolveTopics(Append(g.vertices, "EventCountDetector"),
                                <<"EventHappened", "Reset", "EventCount">>),
     edges |-> [SubscribeEdges(g.edges, <<"EventHappened", "Reset">>,
                               "EventCountDetector")
                   EXCEPT !["EventCountDetector"] = <<"EventCount">>],
     dispatchers |-> [g.dispatchers EXCEPT
                         !["EventCountDetector"] = <<"EventHappened", "Reset">>]]

\* ResetDetector::ResetDetector: Subscribe<EventCount>,
\* SetupFuturePublishing<Reset>
ResetDetector_Construct(g) ==
    [vertices |-> ResolveTopics(Append(g.vertices, "ResetDetector"),
                                <<"EventCount", "Reset">>),
     edges |-> SubscribeEdges(g.edges, <<"EventCount">>, "ResetDetector"),
     dispatchers |-> [g.dispatchers EXCEPT !["ResetDetector"] = <<"EventCount">>]]

\* the programs that drive the graph
Programs == {"ProcessData", "PushEvaluate"}

\* CounterWithResetGraph::CounterWithResetGraph, at the start of the program
CounterInit ==
    /\ LET g == ResetDetector_Construct(
                  EventCountDetector_Construct(
                     [vertices |-> <<>>,
                      edges |-> [v \in CounterVertices |-> <<>>],
                      dispatchers |-> [d \in CounterDetectors |-> <<>>]]))
       IN /\ mVertices = ResolveTopic(g.vertices, "EventCount")
          /\ mOutEdges = g.edges
          /\ mInDispatchers = g.dispatchers
    /\ detectorMState = [d \in {"EventCountDetector"} |-> 0]
    /\ mNeedsSorting = TRUE
    /\ mState = [v \in CounterVertices |-> kVertexClear]
    /\ mCurrentValues = [t \in CounterTopics |-> <<>>]
    /\ mInputQueue = <<>>
    /\ mOutputList = <<>>
    /\ mTimeoutDispatchers = <<>>
    /\ mDefaultHandle = -1
    /\ pc = "idle"
    /\ it = 0
    /\ ret = Returned("none", ErrorType_Success)
    /\ nextVal = 1
    /\ nOps = 0
    /\ inserted = <<>>
    /\ consumed = <<>>
    /\ dequeued = <<>>
    /\ pubLog = [t \in CounterTopics |-> <<>>]
    /\ evalLog = <<>>
    /\ mTimerDeadlines = <<>>
    /\ mElapsedTime = 0
    /\ mMetronomePeriodMsec = 0
    /\ mMetronomeTimerPeriod = 0
    /\ mPeriodicSeries = <<>>
    /\ armings = <<>>
    /\ \E program \in Programs :
          app = [program |-> program, i |-> 0, inProcessGraph |-> FALSE,
                 outputs |-> 0]
    /\ cout = <<>>

timeoutServiceVars == <<mTimerDeadlines, mElapsedTime, mMetronomePeriodMsec,
                        mMetronomeTimerPeriod, mPeriodicSeries, armings>>

\* mGraph.PushData<EventHappened>(EventHappened()) of iteration i of the loop
PushEventHappened ==
    /\ mInputQueue' = Enqueue(mInputQueue, "EventHappened", 0)
    /\ inserted' = Append(inserted, [topic |-> "EventHappened", data |-> 0,
                                     src |-> "push"])
    /\ ret' = Returned("none", ErrorType_Success)
    /\ UNCHANGED <<mVertices, mNeedsSorting, mState, mOutEdges, mInDispatchers,
                   topicVars, timerVars, pc, it, nextVal, nOps, consumed,
                   passLogs, detectorMState, timeoutServiceVars, cout>>

\* for (...) { graph.PushData(EventHappened()); graph.EvaluateGraph(); }: the
\* push of the next iteration
PushEvaluate_Push ==
    /\ app.program = "PushEvaluate"
    /\ pc = "idle"
    /\ app.i < MaxEvents
    /\ app.i = 0 \/ ret.call = "EvaluateGraph"
    /\ PushEventHappened
    /\ app' = [app EXCEPT !.i = @ + 1]

\* ... and its EvaluateGraph call
PushEvaluate_Evaluate ==
    /\ app.program = "PushEvaluate"
    /\ app.i > 0
    /\ ret.call = "none"
    /\ EvaluateGraph_Begin

\* ProcessorContainer::ProcessData up to its call of ProcessGraph
ProcessData ==
    /\ app.program = "ProcessData"
    /\ pc = "idle"
    /\ ~app.inProcessGraph
    /\ app.i < MaxEvents
    /\ PushEventHappened
    /\ app' = [app EXCEPT !.i = @ + 1, !.inProcessGraph = TRUE]

\* Mutant of EvaluateIfHasDataPending: one evaluation per ProcessGraph call
EvaluateIfHasDataPending_Once ==
    /\ app.program = "ProcessData"
    /\ pc = "idle"
    /\ app.inProcessGraph
    /\ ret.call = "none"
    /\ IF mInputQueue # <<>> /\ app.outputs < app.i
       THEN EvaluateGraph_Begin
       ELSE /\ app' = [app EXCEPT !.inProcessGraph = FALSE]
            /\ UNCHANGED <<mVertices, mNeedsSorting, mState, mOutEdges,
                           mInDispatchers, topicVars, mInputQueue, timerVars,
                           pc, it, ret, nextVal, nOps, inserted, consumed,
                           passLogs, detectorMState, timeoutServiceVars, cout>>

\* The loop condition of ProcessorContainer::ProcessGraph,
\* Graph::EvaluateIfHasDataPending: when data is pending EvaluateGraph is
\* called (here up to the start of TraverseVertices), otherwise ProcessGraph
\* and ProcessData return
EvaluateIfHasDataPending ==
    /\ app.program = "ProcessData"
    /\ pc = "idle"
    /\ app.inProcessGraph
    /\ ret.call = "none"
    /\ IF mInputQueue # <<>>
       THEN EvaluateGraph_Begin
       ELSE /\ app' = [app EXCEPT !.inProcessGraph = FALSE]
            /\ UNCHANGED <<mVertices, mNeedsSorting, mState, mOutEdges,
                           mInDispatchers, topicVars, mInputQueue, timerVars,
                           pc, it, ret, nextVal, nOps, inserted, consumed,
                           passLogs, detectorMState, timeoutServiceVars, cout>>

\* CounterWithResetGraph::ProcessOutput, the body of the loop of ProcessGraph
ProcessOutput ==
    /\ app.program = "ProcessData"
    /\ pc = "idle"
    /\ app.inProcessGraph
    /\ ret.call = "EvaluateGraph"
    /\ cout' = IF HasNewValue("EventCount")
               THEN Append(cout, mCurrentValues["EventCount"][Len(mCurrentValues["EventCount"])])
               ELSE cout
    /\ app' = [app EXCEPT !.outputs = @ + 1]
    /\ ret' = Returned("none", ErrorType_Success)
    /\ UNCHANGED <<mVertices, mNeedsSorting, mState, mOutEdges, mInDispatchers,
                   topicVars, mInputQueue, timerVars, pc, it, nextVal, nOps,
                   inserted, consumed, passLogs, detectorMState,
                   timeoutServiceVars>>

\* Publisher<EventCount>::Publish on the pass context
\* c = [values, state, queue, inserted, mV, pubLog]
PublishEventCount(c, v) ==
    LET p == Topic_Publish([values |-> c.values, state |-> c.state],
                           "EventCount", v)
    IN [c EXCEPT !.values = p.values, !.state = p.state,
                 !.pubLog["EventCount"] = Append(@, v)]

\* Mutant of EventCountDetector_Callback: Reset is ignored
EventCountDetector_Callback_NoReset(c, call) ==
    IF call.cb = "Evaluate" /\ call.topic = "EventHappened"
    THEN [c EXCEPT !.mV[call.det] = @ + 1]
    ELSE IF call.cb = "CompleteEvaluation"
    THEN PublishEventCount(c, c.mV[call.det])
    ELSE c

\* EventCountDetector::Evaluate(const EventHappened&),
\* EventCountDetector::Evaluate(const Reset&) and
\* EventCountDetector::CompleteEvaluation
EventCountDetector_Callback(c, call) ==
    IF call.cb = "Evaluate" /\ call.topic = "EventHappened"
    THEN [c EXCEPT !.mV[call.det] = @ + 1]
    ELSE IF call.cb = "Evaluate" /\ call.topic = "Reset"
    THEN [c EXCEPT !.mV[call.det] = 0]
    ELSE IF call.cb = "CompleteEvaluation"
    THEN PublishEventCount(c, c.mV[call.det])
    ELSE c

\* ResetDetector::Evaluate(const EventCount&)
ResetDetector_Callback(c, call) ==
    IF call.cb = "Evaluate" /\ call.data >= kMaxCount
    THEN [c EXCEPT !.queue = Enqueue(@, "Reset", 0),
                   !.inserted = Append(@, [topic |-> "Reset", data |-> 0,
                                           src |-> "future"])]
    ELSE c

\* the callbacks of Detector::ProcessVertex applied in order
RECURSIVE CounterCallbacks(_, _)
CounterCallbacks(c, calls) ==
    IF calls = <<>> THEN c
    ELSE LET call == Head(calls)
             after == IF call.det = "EventCountDetector"
                      THEN EventCountDetector_Callback(c, call)
                      ELSE ResetDetector_Callback(c, call)
         IN CounterCallbacks(after, Tail(calls))

\* One iteration of Graph::TraverseVertices on EventCountDetector or on
\* ResetDetector: Detector::ProcessVertex with the callbacks of these classes
CounterProcessDetector(d) ==
    LET calls == Detector_Callbacks(mCurrentValues, mState, mInDispatchers[d], d)
        c == CounterCallbacks([values |-> mCurrentValues,
                               state |-> Detector_ProcessVertex(mState, d),
                               queue |-> mInputQueue, inserted |-> inserted,
                               mV |-> detectorMState, pubLog |-> pubLog], calls)
    IN /\ evalLog' = evalLog \o calls
       /\ mCurrentValues' = c.values
       /\ mState' = c.state
       /\ mInputQueue' = c.queue
       /\ inserted' = c.inserted
       /\ detectorMState' = c.mV
       /\ pubLog' = c.pubLog
       /\ UNCHANGED <<timerVars, nextVal>>

\* Graph::TraverseVertices, one iteration of its loop
CounterTraverseVertices_Step ==
    /\ pc = "traverse"
    /\ it <= Len(mVertices)
    /\ IF mVertices[it] \in CounterTopics
       THEN ProcessTopic(mVertices[it])
       ELSE CounterProcessDetector(mVertices[it])
    /\ it' = it + 1
    /\ UNCHANGED <<extVars, mVertices, mNeedsSorting, mOutEdges, mInDispatchers,
                   mOutputList, pc, ret, nOps, consumed, dequeued>>

CounterNext ==
    \/ PushEvaluate_Push
    \/ PushEvaluate_Evaluate
    \/ ProcessData
    \/ EvaluateIfHasDataPending
    \/ ProcessOutput
    \/ CounterTraverseVertices_Step
    \/ EvaluateGraph_End

CounterSpec == CounterInit /\ [][CounterNext]_vars

----------------------------------------------------------------------------
(* The timeout publisher service under TestTimeoutPublisherService, called  *)
(* by a test between the passes of a graph of two topics                    *)
(* (test_timeoutpublisherservice.cpp, test_testtimeoutpublisherservice.cpp) *)

\* the handles the test asks for
MaxHandles == 2

\* the ScheduleTimeout calls the test makes
MaxArmings == 3

\* the timeouts the test asks for, in milliseconds
TimeoutsMsec == {1, 2}

\* TestTimeoutPublisherService::kInvalidMaxOffset, the largest TimeOffset
\* (here the largest integer of the model checker)
kInvalidMaxOffset == 2147483647

\* TestTimeoutPublisherService::kMetronomeId (= kInvalidTimeoutPublisherHandle)
kMetronomeId == -1

\* mTimerDeadlines.end(): no key of the map
mTimerDeadlines_end == -2

TimerTopics == {"TopicStateA", "TopicStateB"}

\* the topic state the test schedules on a handle: TopicStateA on handleForA,
\* TopicStateB on handleForB
TopicOfHandle(aHandle) == IF aHandle % 2 = 0 THEN "TopicStateA" ELSE "TopicStateB"

\* what no call of the service touches
serviceFrame == <<mVertices, mNeedsSorting, mState, mOutEdges, mInDispatchers,
                  mCurrentValues, mOutputList, mDefaultHandle, it, nOps,
                  consumed, dequeued, pubLog, evalLog, detectorMState, cout>>

periodicVars == <<mMetronomePeriodMsec, mMetronomeTimerPeriod, mPeriodicSeries>>

\* Graph graph; TestTimeoutPublisherService service(graph); ResolveTopic of
\* both topics.  The build keeps DG_ASSERT (assert) or compiles it out
\* (NDEBUG).
TimerInit ==
    /\ mVertices = ResolveTopics(<<>>, <<"TopicStateA", "TopicStateB">>)
    /\ mOutEdges = [v \in TimerTopics |-> <<>>]
    /\ mInDispatchers = <<>>
    /\ detectorMState = <<>>
    /\ mNeedsSorting = TRUE
    /\ mState = [v \in TimerTopics |-> kVertexClear]
    /\ mCurrentValues = [t \in TimerTopics |-> <<>>]
    /\ mInputQueue = <<>>
    /\ mOutputList = <<>>
    /\ mTimeoutDispatchers = <<>>
    /\ mDefaultHandle = -1
    /\ pc = "idle"
    /\ it = 0
    /\ ret = Returned("none", ErrorType_Success)
    /\ nextVal = 1
    /\ nOps = 0
    /\ inserted = <<>>
    /\ consumed = <<>>
    /\ dequeued = <<>>
    /\ pubLog = [t \in TimerTopics |-> <<>>]
    /\ evalLog = <<>>
    /\ mTimerDeadlines = <<>>
    /\ mElapsedTime = 0
    /\ mMetronomePeriodMsec = 0
    /\ mMetronomeTimerPeriod = 0
    /\ mPeriodicSeries = <<>>
    /\ armings = <<>>
    /\ \E ndebug \in BOOLEAN :
          app = [program |-> "TimerTest", NDEBUG |-> ndebug,
                 call |-> "none", handle |-> -1]
    /\ cout = <<>>

\* the handle is one GetUniqueTimerHandle has returned (the DG_ASSERT on
\* aHandle every call of the service starts with)
IsValidHandle(aHandle) == 0 <= aHandle /\ aHandle < Len(mTimeoutDispatchers)

\* A wrong HasTimeoutExpired: it asks the timer of the handle instead of the
\* slot
HasTimeoutExpired_ByDeadline(aHandle) ==
    \/ aHandle \notin DOMAIN mTimerDeadlines
    \/ mTimerDeadlines[aHandle] = kInvalidMaxOffset

\* TimeoutPublisherService::HasTimeoutExpired
HasTimeoutExpired(aHandle) == mTimeoutDispatchers[aHandle + 1] = NULL

\* TestTimeoutPublisherService::SetTimeout
SetTimeout(deadlines, elapsed, aMillisecondsFromNow, aTimerId) ==
    [k \in DOMAIN deadlines \cup {aTimerId} |->
        IF k = aTimerId THEN aMillisecondsFromNow + elapsed ELSE deadlines[k]]

\* TestTimeoutPublisherService::Cancel
Cancel(deadlines, aTimerId) ==
    [k \in DOMAIN deadlines \cup {aTimerId} |->
        IF k = aTimerId THEN kInvalidMaxOffset ELSE deadlines[k]]

\* the loop of TestTimeoutPublisherService::GetNextTimeout from key k on;
\* std::map iterates in key order
RECURSIVE GetNextTimeout_From(_, _, _)
GetNextTimeout_From(deadlines, k, minIt) ==
    IF \A j \in DOMAIN deadlines : j < k THEN minIt
    ELSE LET nextDeadline == IF minIt = mTimerDeadlines_end THEN kInvalidMaxOffset
                             ELSE deadlines[minIt]
         IN IF k \in DOMAIN deadlines /\ deadlines[k] < nextDeadline
            THEN GetNextTimeout_From(deadlines, k + 1, k)
            ELSE GetNextTimeout_From(deadlines, k + 1, minIt)

\* TestTimeoutPublisherService::GetNextTimeout
GetNextTimeout(deadlines) ==
    GetNextTimeout_From(deadlines, kMetronomeId, mTimerDeadlines_end)

\* history: the pending arming of aHandle, if any, gets its fate
Settle(arms, aHandle, fate) ==
    [i \in 1..Len(arms) |->
        IF arms[i].handle = aHandle /\ arms[i].fate = "pending"
        THEN [arms[i] EXCEPT !.fate = fate] ELSE arms[i]]

\* the test's record of the call it has just made
Called(call, aHandle) == [app EXCEPT !.call = call, !.handle = aHandle]

\* TimeoutPublisherService::GetUniqueTimerHandle
GetUniqueTimerHandle ==
    /\ pc = "idle"
    /\ Len(mTimeoutDispatchers) < MaxHandles
    /\ mTimeoutDispatchers' = Append(mTimeoutDispatchers, NULL)
    /\ app' = Called("GetUniqueTimerHandle", Len(mTimeoutDispatchers))
    /\ ret' = Returned("none", ErrorType_Success)
    /\ UNCHANGED <<serviceFrame, periodicVars, mInputQueue, inserted, pc, nextVal,
                   mTimerDeadlines, mElapsedTime, armings>>

\* TimeoutPublisherService::ScheduleTimeout<T>(aData, aMillisecondsFromNow,
\* aTimerHandle) with ScheduleTimeoutDispatcher, SetTimeout and Start.  On a
\* handle whose slot is taken DG_ASSERT(mTimeoutDispatchers[idx] == NULL)
\* fails: the program aborts, or, assert being compiled out, the old
\* dispatcher is overwritten (and leaked) and the timer set anew.
ScheduleTimeout(t, aMillisecondsFromNow, aTimerHandle) ==
    /\ pc = "idle"
    /\ IsValidHandle(aTimerHandle)
    /\ Len(armings) < MaxArmings
    /\ app' = Called("ScheduleTimeout", aTimerHandle)
    /\ ret' = Returned("none", ErrorType_Success)
    /\ nextVal' = nextVal + 1
    /\ IF mTimeoutDispatchers[aTimerHandle + 1] # NULL /\ ~app.NDEBUG
       THEN /\ pc' = "aborted"
            /\ armings' = Append(armings, [handle |-> aTimerHandle, topic |-> t,
                                           data |-> nextVal, fate |-> "aborted"])
            /\ UNCHANGED <<mTimeoutDispatchers, mTimerDeadlines>>
       ELSE /\ mTimeoutDispatchers' =
                 ScheduleTimeoutDispatcher(mTimeoutDispatchers, t, nextVal, aTimerHandle)
            /\ mTimerDeadlines' = SetTimeout(mTimerDeadlines, mElapsedTime,
                                             aMillisecondsFromNow, aTimerHandle)
            /\ armings' = Append(Settle(armings, aTimerHandle, "overwritten"),
                                 [handle |-> aTimerHandle, topic |-> t,
                                  data |-> nextVal, fate |-> "pending"])
            /\ pc' = pc
    /\ UNCHANGED <<serviceFrame, periodicVars, mInputQueue, inserted, mElapsedTime>>

\* A wrong CancelPublishOnTimeout: the timer is stopped and the stored value
\* is kept in the slot
CancelPublishOnTimeout_KeepsSlot(aHandle) ==
    /\ pc = "idle"
    /\ IsValidHandle(aHandle)
    /\ IF mTimeoutDispatchers[aHandle + 1] # NULL
       THEN mTimerDeadlines' = Cancel(mTimerDeadlines, aHandle)
       ELSE UNCHANGED mTimerDeadlines
    /\ app' = Called("CancelPublishOnTimeout", aHandle)
    /\ ret' = Returned("none", ErrorType_Success)
    /\ UNCHANGED <<serviceFrame, periodicVars, mInputQueue, inserted, pc, nextVal,
                   mElapsedTime, mTimeoutDispatchers, armings>>

\* TimeoutPublisherService::CancelPublishOnTimeout
CancelPublishOnTimeout(aHandle) ==
    /\ pc = "idle"
    /\ IsValidHandle(aHandle)
    /\ IF mTimeoutDispatchers[aHandle + 1] # NULL
       THEN /\ mTimerDeadlines' = Cancel(mTimerDeadlines, aHandle)
            /\ mTimeoutDispatchers' = [mTimeoutDispatchers EXCEPT ![aHandle + 1] = NULL]
            /\ armings' = Settle(armings, aHandle, "cancelled")
       ELSE UNCHANGED <<mTimerDeadlines, mTimeoutDispatchers, armings>>
    /\ app' = Called("CancelPublishOnTimeout", aHandle)
    /\ ret' = Returned("none", ErrorType_Success)
    /\ UNCHANGED <<serviceFrame, periodicVars, mInputQueue, inserted, pc, nextVal,
                   mElapsedTime>>

\* A wrong TimeoutPublisherService::TimeoutExpired: the value is dispatched
\* and stays in the slot
Service_TimeoutExpired_KeepsSlot(aHandle) ==
    LET tDispatcher == mTimeoutDispatchers[aHandle + 1]
    IN IF tDispatcher # NULL
       THEN /\ mInputQueue' = Enqueue(mInputQueue, tDispatcher.topic, tDispatcher.data)
            /\ inserted' = Append(inserted, [topic |-> tDispatcher.topic,
                                             data |-> tDispatcher.data, src |-> "timer"])
            /\ UNCHANGED <<mTimeoutDispatchers, armings>>
       ELSE UNCHANGED <<mInputQueue, inserted, mTimeoutDispatchers, armings>>

\* A wrong TimeoutPublisherService::TimeoutExpired: on a handle that was
\* cancelled before, the notification is taken for a late one and skipped
Service_TimeoutExpired_SkipsAfterCancel(aHandle) ==
    LET tDispatcher == mTimeoutDispatchers[aHandle + 1]
    IN IF /\ tDispatcher # NULL
          /\ ~\E i \in DOMAIN armings :
                 armings[i].handle = aHandle /\ armings[i].fate = "cancelled"
       THEN /\ mInputQueue' = Enqueue(mInputQueue, tDispatcher.topic, tDispatcher.data)
            /\ inserted' = Append(inserted, [topic |-> tDispatcher.topic,
                                             data |-> tDispatcher.data, src |-> "timer"])
            /\ mTimeoutDispatchers' = [mTimeoutDispatchers EXCEPT ![aHandle + 1] = NULL]
            /\ armings' = Settle(armings, aHandle, "fired")
       ELSE UNCHANGED <<mInputQueue, inserted, mTimeoutDispatchers, armings>>

\* TimeoutPublisherService::TimeoutExpired: Dispatcher<T>::Dispatch is
\* Graph::PushData
Service_TimeoutExpired(aHandle) ==
    LET tDispatcher == mTimeoutDispatchers[aHandle + 1]
    IN IF tDispatcher # NULL
       THEN /\ mInputQueue' = Enqueue(mInputQueue, tDispatcher.topic, tDispatcher.data)
            /\ inserted' = Append(inserted, [topic |-> tDispatcher.topic,
                                             data |-> tDispatcher.data, src |-> "timer"])
            /\ mTimeoutDispatchers' = [mTimeoutDispatchers EXCEPT ![aHandle + 1] = NULL]
            /\ armings' = Settle(armings, aHandle, "fired")
       ELSE UNCHANGED <<mInputQueue, inserted, mTimeoutDispatchers, armings>>

\* The platform's timer of aTimerId fires, whatever the service did to it in
\* the meantime: TimeoutExpired(aTimerId)
\* (MockTimeoutPublisherService::FireMockTimeout)
FireMockTimeout(aTimerId) ==
    /\ pc = "idle"
    /\ IsValidHandle(aTimerId)
    /\ Service_TimeoutExpired(aTimerId)
    /\ app' = Called("TimeoutExpired", aTimerId)
    /\ ret' = Returned("none", ErrorType_Success)
    /\ UNCHANGED <<serviceFrame, periodicVars, pc, nextVal, mTimerDeadlines, mElapsedTime>>

\* the loop of TimeoutPublisherService::MetronomeFired from series i on;
\* c = [series, queue, inserted].  A series carries, next to its members, the
\* topic state its dispatcher holds and a history of its own: how often it
\* has dispatched and how many milliseconds the metronome has added to it.
RECURSIVE MetronomeFired_From(_, _, _)
MetronomeFired_From(c, metronome, i) ==
    IF i > Len(c.series) THEN c
    ELSE LET s == c.series[i]
             acc == s.mMetronomeAccumulator + metronome
         IN IF acc >= s.mPublishingPeriodMsec
            THEN MetronomeFired_From(
                    [series |-> [c.series EXCEPT ![i].mMetronomeAccumulator = 0,
                                                 ![i].fired = @ + 1,
                                                 ![i].metronomeTime = @ + metronome],
                     queue |-> Enqueue(c.queue, s.topic, s.data),
                     inserted |-> Append(c.inserted, [topic |-> s.topic, data |-> s.data,
                                                      src |-> "periodic"])],
                    metronome, i + 1)
            ELSE MetronomeFired_From(
                    [c EXCEPT !.series[i].mMetronomeAccumulator = acc,
                              !.series[i].metronomeTime = @ + metronome],
                    metronome, i + 1)

\* A wrong MetronomeFired: the accumulators count the firings of the
\* metronome instead of its milliseconds
MetronomeFired_CountsFirings(series, metronome, queue, ins) ==
    MetronomeFired_From([series |-> series, queue |-> queue, inserted |-> ins], 1, 1)

\* TimeoutPublisherService::MetronomeFired
MetronomeFired(series, metronome, queue, ins) ==
    MetronomeFired_From([series |-> series, queue |-> queue, inserted |-> ins],
                        metronome, 1)

\* TestTimeoutPublisherService::FireNextTimeout (when it returns true)
FireNextTimeout ==
    /\ pc = "idle"
    /\ LET minIt == GetNextTimeout(mTimerDeadlines)
       IN /\ minIt # mTimerDeadlines_end
          /\ mElapsedTime' = mTimerDeadlines[minIt]
          /\ IF minIt = kMetronomeId
             THEN LET m == MetronomeFired(mPeriodicSeries, mMetronomePeriodMsec,
                                          mInputQueue, inserted)
                  IN /\ mPeriodicSeries' = m.series
                     /\ mInputQueue' = m.queue
                     /\ inserted' = m.inserted
                     /\ mTimerDeadlines' = SetTimeout(mTimerDeadlines, mTimerDeadlines[minIt],
                                                      mMetronomeTimerPeriod, kMetronomeId)
                     /\ UNCHANGED <<mTimeoutDispatchers, armings>>
             ELSE /\ Service_TimeoutExpired(minIt)
                  /\ mTimerDeadlines' = [mTimerDeadlines EXCEPT ![minIt] = kInvalidMaxOffset]
                  /\ UNCHANGED mPeriodicSeries
          /\ app' = Called("FireNextTimeout", minIt)
    /\ ret' = Returned("none", ErrorType_Success)
    /\ UNCHANGED <<serviceFrame, mMetronomePeriodMsec, mMetronomeTimerPeriod, pc, nextVal>>

\* Graph::TraverseVertices, one iteration of its loop (the graph has topics
\* only)
TimerTraverseVertices_Step ==
    /\ pc = "traverse"
    /\ it <= Len(mVertices)
    /\ ProcessTopic(mVertices[it])
    /\ it' = it + 1
    /\ UNCHANGED <<extVars, mVertices, mNeedsSorting, mOutEdges, mInDispatchers,
                   mOutputList, pc, ret, nOps, consumed, dequeued>>

TimerNext ==
    \/ GetUniqueTimerHandle
    \/ \E ms \in TimeoutsMsec, h \in 0..(MaxHandles - 1) :
          ScheduleTimeout(TopicOfHandle(h), ms, h)
    \/ \E h \in 0..(MaxHandles - 1) : CancelPublishOnTimeout(h)
    \/ \E h \in 0..(MaxHandles - 1) : FireMockTimeout(h)
    \/ FireNextTimeout
    \/ EvaluateGraph_Begin
    \/ TimerTraverseVertices_Step
    \/ EvaluateGraph_End

TimerSpec == TimerInit /\ [][TimerNext]_vars

----------------------------------------------------------------------------
(* Periodic publishing under TestTimeoutPublisherService                    *)
(* (test_timeoutpublisherservice.cpp Test_PeriodicMultiple,                 *)
(* test_testtimeoutpublisherservice.cpp Test_TestPeriodicPublishing)        *)

\* the series registered
MaxSeries == 3

\* the simulated time the test forwards to, in milliseconds
MaxTime == 90

\* the periods registered, in milliseconds
Periods == {6, 9, 15, 45}

\* the topic of the i-th series
PeriodicTopicNames == <<"Periodic1", "Periodic2", "Periodic3", "Periodic4", "Periodic5">>
PeriodicTopics == {PeriodicTopicNames[i] : i \in 1..MaxSeries}

\* A wrong gcd: the smaller of the two periods
gcd_Smaller(lhs, rhs) ==
    IF rhs = 0 THEN lhs
    ELSE IF lhs = 0 THEN rhs
    ELSE IF lhs < rhs THEN lhs ELSE rhs

\* TimeoutPublisherService::gcd: while (rhs != 0) { temp = rhs; rhs = lhs % rhs;
\* lhs = temp; } return lhs;
RECURSIVE gcd(_, _)
gcd(lhs, rhs) ==
    IF rhs = 0 THEN lhs ELSE gcd(rhs, lhs % rhs)

\* Graph graph; TestTimeoutPublisherService timeoutService(graph); the topics
\* of the series resolved
PeriodicInit ==
    /\ mVertices = ResolveTopics(<<>>, SubSeq(PeriodicTopicNames, 1, MaxSeries))
    /\ mOutEdges = [v \in PeriodicTopics |-> <<>>]
    /\ mInDispatchers = <<>>
    /\ detectorMState = <<>>
    /\ mNeedsSorting = TRUE
    /\ mState = [v \in PeriodicTopics |-> kVertexClear]
    /\ mCurrentValues = [t \in PeriodicTopics |-> <<>>]
    /\ mInputQueue = <<>>
    /\ mOutputList = <<>>
    /\ mTimeoutDispatchers = <<>>
    /\ mDefaultHandle = -1
    /\ pc = "idle"
    /\ it = 0
    /\ ret = Returned("none", ErrorType_Success)
    /\ nextVal = 1
    /\ nOps = 0
    /\ inserted = <<>>
    /\ consumed = <<>>
    /\ dequeued = <<>>
    /\ pubLog = [t \in PeriodicTopics |-> <<>>]
    /\ evalLog = <<>>
    /\ mTimerDeadlines = <<>>
    /\ mElapsedTime = 0
    /\ mMetronomePeriodMsec = 0
    /\ mMetronomeTimerPeriod = 0
    /\ mPeriodicSeries = <<>>
    /\ armings = <<>>
    /\ app = [program |-> "PeriodicTest", started |-> FALSE,
              call |-> "none", handle |-> -1]
    /\ cout = <<>>

\* TimeoutPublisherService::SchedulePeriodicPublishing<T>(aPeriodInMilliseconds)
\* with SchedulePeriodicPublishingDispatcher; the dispatcher holds a
\* default-constructed T
SchedulePeriodicPublishing(aPeriodInMilliseconds) ==
    /\ pc = "idle"
    /\ Len(mPeriodicSeries) < MaxSeries
    /\ mMetronomePeriodMsec' = gcd(aPeriodInMilliseconds, mMetronomePeriodMsec)
    /\ mPeriodicSeries' =
          Append(mPeriodicSeries,
                 [mPublishingPeriodMsec |-> aPeriodInMilliseconds,
                  mMetronomeAccumulator |-> 0,
                  topic |-> PeriodicTopicNames[Len(mPeriodicSeries) + 1],
                  data |-> 0,
                  fired |-> 0,
                  metronomeTime |-> 0,
                  afterStart |-> app.started])
    /\ app' = Called("SchedulePeriodicPublishing", -1)
    /\ ret' = Returned("none", ErrorType_Success)
    /\ UNCHANGED <<serviceFrame, mMetronomeTimerPeriod, mInputQueue, inserted, pc, nextVal,
                   mTimerDeadlines, mElapsedTime, mTimeoutDispatchers, armings>>

\* TimeoutPublisherService::StartPeriodicPublishing with
\* TestTimeoutPublisherService::StartMetronome; the test calls it once
StartPeriodicPublishing ==
    /\ pc = "idle"
    /\ ~app.started
    /\ IF mMetronomePeriodMsec > 0
       THEN /\ mMetronomeTimerPeriod' = mMetronomePeriodMsec
            /\ mTimerDeadlines' = SetTimeout(mTimerDeadlines, mElapsedTime,
                                             mMetronomePeriodMsec, kMetronomeId)
       ELSE UNCHANGED <<mMetronomeTimerPeriod, mTimerDeadlines>>
    /\ app' = [app EXCEPT !.started = TRUE, !.call = "StartPeriodicPublishing"]
    /\ ret' = Returned("none", ErrorType_Success)
    /\ UNCHANGED <<serviceFrame, mMetronomePeriodMsec, mPeriodicSeries, mInputQueue,
                   inserted, pc, nextVal, mElapsedTime, mTimeoutDispatchers, armings>>

\* TestTimeoutPublisherService::ForwardTimeAndEvaluate, its loop: the next
\* timeout fires when the queue has been evaluated empty and the deadline is
\* not beyond the time forwarded to
ForwardTimeAndEvaluate_Fire ==
    /\ mInputQueue = <<>>
    /\ LET minIt == GetNextTimeout(mTimerDeadlines)
       IN /\ minIt # mTimerDeadlines_end
          /\ mTimerDeadlines[minIt] <= MaxTime
    /\ FireNextTimeout

\* TestTimeoutPublisherService::ForwardTimeAndEvaluate, its inner loop:
\* while (HasDataPending()) EvaluateGraph()
ForwardTimeAndEvaluate_Evaluate ==
    /\ mInputQueue # <<>>
    /\ EvaluateGraph_Begin

PeriodicNext ==
    \/ \E p \in Periods : SchedulePeriodicPublishing(p)
    \/ StartPeriodicPublishing
    \/ ForwardTimeAndEvaluate_Fire
    \/ ForwardTimeAndEvaluate_Evaluate
    \/ TimerTraverseVertices_Step
    \/ EvaluateGraph_End

PeriodicSpec == PeriodicInit /\ [][PeriodicNext]_vars

----------------------------------------------------------------------------
(* A detector that re-arms its own timeout, under                           *)
(* TestTimeoutPublisherService::ForwardTimeAndEvaluate                      *)
(* (test_testtimeoutpublisherservice.cpp, Test_RecurringTimer)              *)

\* the ForwardTimeAndEvaluate calls the test makes
MaxForwards == 3

\* the simulated time the test forwards to, in milliseconds
MaxForwardedTime == 1400

\* the amounts of time the test forwards by, in milliseconds
ForwardTimes == {0, 100, 200, 1000}

\* the delay the detector arms its timeout with (10 in RecurringTestDetector),
\* in milliseconds
RearmDelays == {10, 200}

\* RecurringTestRequest::Type
RecurringTestRequest_Start == 0
RecurringTestRequest_Stop == 1

RecurringTopics == {"RecurringTestRequest", "RecurringTestTimeout"}

RecurringVertices == RecurringTopics \cup {"RecurringTestDetector"}

\* the queue entries that carry a RecurringTestTimeout
IsRecurringTestTimeout(e) == e.topic = "RecurringTestTimeout"

\* Graph graph; TestTimeoutPublisherService timeoutService(graph);
\* RecurringTestDetector detector(&graph, &timeoutService);
RecurringInit ==
    /\ mVertices = <<"RecurringTestDetector", "RecurringTestRequest", "RecurringTestTimeout">>
    /\ mOutEdges = [v \in RecurringVertices |->
                       IF v \in RecurringTopics THEN <<"RecurringTestDetector">> ELSE <<>>]
    /\ mInDispatchers = [d \in {"RecurringTestDetector"} |->
                            <<"RecurringTestRequest", "RecurringTestTimeout">>]
    /\ detectorMState = [d \in {"RecurringTestDetector"} |-> 0]
    /\ mNeedsSorting = TRUE
    /\ mState = [v \in RecurringVertices |-> kVertexClear]
    /\ mCurrentValues = [t \in RecurringTopics |-> <<>>]
    /\ mInputQueue = <<>>
    /\ mOutputList = <<>>
    /\ mTimeoutDispatchers = <<NULL>>
    /\ mDefaultHandle = 0
    /\ pc = "idle"
    /\ it = 0
    /\ ret = Returned("none", ErrorType_Success)
    /\ nextVal = 1
    /\ nOps = 0
    /\ inserted = <<>>
    /\ consumed = <<>>
    /\ dequeued = <<>>
    /\ pubLog = [t \in RecurringTopics |-> <<>>]
    /\ evalLog = <<>>
    /\ mTimerDeadlines = <<>>
    /\ mElapsedTime = 0
    /\ mMetronomePeriodMsec = 0
    /\ mMetronomeTimerPeriod = 0
    /\ mPeriodicSeries = <<>>
    /\ armings = <<>>
    /\ \E d \in RearmDelays :
          app = [program |-> "RecurringTest", delay |-> d, requests |-> <<>>,
                 forwards |-> <<>>, phase |-> "none", finalDeadline |-> 0,
                 nextDeadline |-> -1, startTime |-> -1, passesAtCall |-> 0,
                 armedAtCall |-> FALSE]
    /\ cout = <<>>

\* request.req = ...; graph.PushData<RecurringTestRequest>(request): Start
\* once, then Stop
PushRecurringTestRequest(req) ==
    /\ pc = "idle"
    /\ app.phase = "none"
    /\ mInputQueue = <<>>
    /\ \/ req = RecurringTestRequest_Start /\ app.requests = <<>>
       \/ req = RecurringTestRequest_Stop /\ app.requests = <<RecurringTestRequest_Start>>
    /\ mInputQueue' = Enqueue(mInputQueue, "RecurringTestRequest", req)
    /\ inserted' = Append(inserted, [topic |-> "RecurringTestRequest", data |-> req,
                                     src |-> "push"])
    /\ app' = [app EXCEPT !.requests = Append(@, req)]
    /\ ret' = Returned("none", ErrorType_Success)
    /\ UNCHANGED <<mVertices, mNeedsSorting, mState, mOutEdges, mInDispatchers,
                   topicVars, timerVars, pc, it, nextVal, nOps, consumed,
                   passLogs, detectorMState, timeoutServiceVars, cout>>

\* graph.EvaluateGraph() called by the test after its push
RecurringTest_EvaluateGraph ==
    /\ app.phase = "none"
    /\ mInputQueue # <<>>
    /\ EvaluateGraph_Begin

\* TestTimeoutPublisherService::ForwardTimeAndEvaluate, its entry:
\* finalDeadline = mElapsedTime + aFwdTime; the queue is flushed first when
\* aFwdTime > 0
ForwardTimeAndEvaluate_Call(aFwdTime) ==
    /\ pc = "idle"
    /\ app.phase = "none"
    /\ Len(app.forwards) < MaxForwards
    /\ mElapsedTime + aFwdTime <= MaxForwardedTime
    /\ app' = [app EXCEPT !.forwards = Append(@, aFwdTime),
                          !.finalDeadline = mElapsedTime + aFwdTime,
                          !.nextDeadline = -1,
                          !.phase = IF aFwdTime > 0 THEN "flush" ELSE "loop",
                          !.passesAtCall = Len(SelectSeq(consumed, IsRecurringTestTimeout)),
                          !.armedAtCall = (mTimeoutDispatchers[mDefaultHandle + 1] # NULL)]
    /\ ret' = Returned("none", ErrorType_Success)
    /\ UNCHANGED <<mVertices, mNeedsSorting, mState, mOutEdges, mInDispatchers,
                   topicVars, timerVars, mInputQueue, inserted, pc, it, nextVal, nOps,
                   consumed, passLogs, detectorMState, timeoutServiceVars, cout>>

\* what ForwardTimeAndEvaluate leaves alone between two EvaluateGraph calls
forwardFrame == <<mVertices, mNeedsSorting, mState, mOutEdges, mInDispatchers,
                  topicVars, mDefaultHandle, pc, it, nextVal, nOps, consumed,
                  passLogs, detectorMState, mMetronomePeriodMsec,
                  mMetronomeTimerPeriod, cout>>

\* ForwardTimeAndEvaluate: while (aGraphToEvaluate.HasDataPending())
\* aGraphToEvaluate.EvaluateGraph(); before the first timeout
ForwardTimeAndEvaluate_Flush ==
    /\ pc = "idle"
    /\ app.phase = "flush"
    /\ IF mInputQueue # <<>>
       THEN EvaluateGraph_Begin
       ELSE /\ app' = [app EXCEPT !.phase = "loop"]
            /\ UNCHANGED <<forwardFrame, ret, mInputQueue, inserted, mTimeoutDispatchers,
                           mTimerDeadlines, mElapsedTime, mPeriodicSeries, armings>>

\* ForwardTimeAndEvaluate: one test of its while (minIt != mTimerDeadlines.end())
\* loop: the next timeout fires, or, none being due by finalDeadline, the
\* call returns with mElapsedTime = finalDeadline
ForwardTimeAndEvaluate_Loop ==
    /\ pc = "idle"
    /\ app.phase = "loop"
    /\ LET minIt == GetNextTimeout(mTimerDeadlines)
       IN IF minIt = mTimerDeadlines_end \/ mTimerDeadlines[minIt] > app.finalDeadline
          THEN /\ mElapsedTime' = app.finalDeadline
               /\ app' = [app EXCEPT !.phase = "none"]
               /\ ret' = Returned("ForwardTimeAndEvaluate", ErrorType_Success)
               /\ UNCHANGED <<mInputQueue, inserted, mTimeoutDispatchers,
                              mTimerDeadlines, mPeriodicSeries, armings>>
          ELSE /\ mElapsedTime' = mTimerDeadlines[minIt]
               /\ IF minIt = kMetronomeId
                  THEN LET m == MetronomeFired(mPeriodicSeries, mMetronomePeriodMsec,
                                               mInputQueue, inserted)
                       IN /\ mPeriodicSeries' = m.series
                          /\ mInputQueue' = m.queue
                          /\ inserted' = m.inserted
                          /\ mTimerDeadlines' =
                                SetTimeout(mTimerDeadlines, mTimerDeadlines[minIt],
                                           mMetronomeTimerPeriod, kMetronomeId)
                          /\ UNCHANGED <<mTimeoutDispatchers, armings>>
                  ELSE /\ Service_TimeoutExpired(minIt)
                       /\ mTimerDeadlines' =
                             [mTimerDeadlines EXCEPT ![minIt] = kInvalidMaxOffset]
                       /\ UNCHANGED mPeriodicSeries
               /\ app' = [app EXCEPT !.phase = "inner",
                                     !.nextDeadline = mTimerDeadlines[minIt]]
               /\ ret' = Returned("none", ErrorType_Success)
    /\ UNCHANGED forwardFrame

\* ForwardTimeAndEvaluate: while (aGraphToEvaluate.HasDataPending())
\* { EvaluateGraph(); if (nextDeadline == finalDeadline) break; } after a
\* timeout has fired
ForwardTimeAndEvaluate_Inner ==
    /\ pc = "idle"
    /\ app.phase = "inner"
    /\ IF /\ mInputQueue # <<>>
          /\ ~(ret.call = "EvaluateGraph" /\ app.nextDeadline = app.finalDeadline)
       THEN EvaluateGraph_Begin
       ELSE /\ app' = [app EXCEPT !.phase = "loop"]
            /\ UNCHANGED <<forwardFrame, ret, mInputQueue, inserted, mTimeoutDispatchers,
                           mTimerDeadlines, mElapsedTime, mPeriodicSeries, armings>>

\* A wrong PublishOnTimeout: the timeout is armed with twice the delay
RecurringTestDetector_PublishOnTimeout_TwiceTheDelay(c, delay) ==
    [c EXCEPT !.mV["RecurringTestDetector"] = @ + 1,
              !.timeouts = ScheduleTimeoutDispatcher(@, "RecurringTestTimeout",
                              c.mV["RecurringTestDetector"] + 1, mDefaultHandle),
              !.deadlines = SetTimeout(@, mElapsedTime, 2 * delay, mDefaultHandle),
              !.armings = Append(@, [handle |-> mDefaultHandle,
                                     topic |-> "RecurringTestTimeout",
                                     data |-> c.mV["RecurringTestDetector"] + 1,
                                     fate |-> "pending"])]

\* TimeoutPublisher<RecurringTestTimeout>::PublishOnTimeout(
\* RecurringTestTimeout(++counter), delay) on the pass context
\* c = [timeouts, deadlines, armings, mV, aborted]: ScheduleTimeout on the
\* default handle, whose DG_ASSERT aborts the program when the slot is taken
RecurringTestDetector_PublishOnTimeout(c, delay) ==
    IF c.timeouts[mDefaultHandle + 1] # NULL
    THEN [c EXCEPT !.mV["RecurringTestDetector"] = @ + 1, !.aborted = TRUE]
    ELSE [c EXCEPT !.mV["RecurringTestDetector"] = @ + 1,
                   !.timeouts = ScheduleTimeoutDispatcher(@, "RecurringTestTimeout",
                                   c.mV["RecurringTestDetector"] + 1, mDefaultHandle),
                   !.deadlines = SetTimeout(@, mElapsedTime, delay, mDefaultHandle),
                   !.armings = Append(@, [handle |-> mDefaultHandle,
                                          topic |-> "RecurringTestTimeout",
                                          data |-> c.mV["RecurringTestDetector"] + 1,
                                          fate |-> "pending"])]

\* RecurringTestDetector::Evaluate(const RecurringTestRequest&) and
\* RecurringTestDetector::Evaluate(const RecurringTestTimeout&)
RecurringTestDetector_Callback(c, call) ==
    IF c.aborted \/ call.cb # "Evaluate" THEN c
    ELSE IF call.topic = "RecurringTestRequest"
    THEN IF call.data = RecurringTestRequest_Start
         THEN RecurringTestDetector_PublishOnTimeout(c, app.delay)
         ELSE IF call.data = RecurringTestRequest_Stop
         THEN IF c.timeouts[mDefaultHandle + 1] # NULL
              THEN [c EXCEPT !.timeouts[mDefaultHandle + 1] = NULL,
                             !.deadlines = Cancel(@, mDefaultHandle),
                             !.armings = Settle(@, mDefaultHandle, "cancelled")]
              ELSE c
         ELSE c
    ELSE RecurringTestDetector_PublishOnTimeout(c, app.delay)

\* the callbacks of Detector::ProcessVertex applied in order
RECURSIVE RecurringCallbacks(_, _)
RecurringCallbacks(c, calls) ==
    IF calls = <<>> THEN c
    ELSE RecurringCallbacks(RecurringTestDetector_Callback(c, Head(calls)), Tail(calls))

\* Graph::TraverseVertices, one iteration of its loop: Topic::ProcessVertex,
\* or Detector::ProcessVertex with the callbacks of RecurringTestDetector
RecurringTraverseVertices_Step ==
    /\ pc = "traverse"
    /\ it <= Len(mVertices)
    /\ IF mVertices[it] \in RecurringTopics
       THEN /\ ProcessTopic(mVertices[it])
            /\ it' = it + 1
            /\ UNCHANGED <<extVars, pc>>
       ELSE LET d == mVertices[it]
                calls == Detector_Callbacks(mCurrentValues, mState, mInDispatchers[d], d)
                c == RecurringCallbacks([timeouts |-> mTimeoutDispatchers,
                                         deadlines |-> mTimerDeadlines,
                                         armings |-> armings,
                                         mV |-> detectorMState,
                                         aborted |-> FALSE], calls)
            IN /\ evalLog' = evalLog \o calls
               /\ mState' = Detector_ProcessVertex(mState, d)
               /\ mTimeoutDispatchers' = c.timeouts
               /\ mTimerDeadlines' = c.deadlines
               /\ armings' = c.armings
               /\ detectorMState' = c.mV
               /\ pc' = IF c.aborted THEN "aborted" ELSE pc
               /\ it' = it + 1
               /\ app' = IF calls # <<>> /\ app.startTime = -1
                         THEN [app EXCEPT !.startTime = mElapsedTime]
                         ELSE app
               /\ UNCHANGED <<mCurrentValues, mInputQueue, inserted, mDefaultHandle,
                              nextVal, pubLog, mElapsedTime, mMetronomePeriodMsec,
                              mMetronomeTimerPeriod, mPeriodicSeries, cout>>
    /\ UNCHANGED <<mVertices, mNeedsSorting, mOutEdges, mInDispatchers,
                   mOutputList, ret, nOps, consumed, dequeued>>

RecurringNext ==
    \/ \E req \in {RecurringTestRequest_Start, RecurringTestRequest_Stop} :
          PushRecurringTestRequest(req)
    \/ RecurringTest_EvaluateGraph
    \/ \E aFwdTime \in ForwardTimes : ForwardTimeAndEvaluate_Call(aFwdTime)
    \/ ForwardTimeAndEvaluate_Flush
    \/ ForwardTimeAndEvaluate_Loop
    \/ ForwardTimeAndEvaluate_Inner
    \/ RecurringTraverseVertices_Step
    \/ EvaluateGraph_End

RecurringSpec == RecurringInit /\ [][RecurringNext]_vars

----------------------------------------------------------------------------
(* GraphStateStore and StateSnapshot (test_graphstatestore.cpp): the store  *)
(* and the snapshots are objects the test owns through shared pointers      *)

\* the TakeNewSnapshot calls the test makes
MaxSnapshots == 4

\* the length of the list given to TakeNewSnapshot
MaxListLen == 3

\* TopicState::kAnonymousTopicState
kAnonymousTopicState == -1

\* PacketTypeA::PacketTypeAId, PacketTypeB::PacketTypeBId
PacketTypeAId == 42
PacketTypeBId == 43

\* the topic states the test puts on its lists: PacketTypeA(1), PacketTypeA(2),
\* PacketTypeB(1) and a TopicState without an id
TopicStates == {[id |-> PacketTypeAId, mV |-> 1], [id |-> PacketTypeAId, mV |-> 2],
                [id |-> PacketTypeBId, mV |-> 1], [id |-> kAnonymousTopicState, mV |-> 1]}

\* TopicState::GetId
GetId(aTopicState) == aTopicState.id

\* the addresses a StateSnapshot can be allocated at; 0 is the null pointer
SnapshotAddresses == 1..4

\* an empty ptr::shared_ptr<const TopicState>
NoTopicState == [id |-> kAnonymousTopicState, mV |-> 0]

\* memory that holds no StateSnapshot
FreedMemory == [live |-> FALSE, refs |-> 0, mStateStore |-> <<>>, mStateVersion |-> 0]

\* StateSnapshot::StateSnapshot()
StateSnapshot_Empty == [live |-> TRUE, refs |-> 1, mStateStore |-> <<>>, mStateVersion |-> 0]

\* StateSnapshot::GetState(aId)
GetState(aSnapshot, aId) ==
    IF aId \in DOMAIN aSnapshot.mStateStore THEN aSnapshot.mStateStore[aId]
    ELSE NoTopicState

\* mStateStore[id] = tpTopicState on a std::map
MapPut(store, id, tpTopicState) ==
    [k \in DOMAIN store \cup {id} |-> IF k = id THEN tpTopicState ELSE store[k]]

\* A wrong UpdateValues: the paranoid check is enabled,
\* DG_ASSERT(tpTopicState->GetId() != previousTopicStateID)
RECURSIVE UpdateValues_Paranoid(_, _)
UpdateValues_Paranoid(c, arTopicStates) ==
    IF arTopicStates = <<>> \/ c.aborted THEN c
    ELSE LET tpTopicState == Head(arTopicStates)
         IN IF GetId(tpTopicState) # kAnonymousTopicState
            THEN IF GetId(tpTopicState) = c.previousTopicStateID
                 THEN [c EXCEPT !.dgLog = Append(@, GetId(tpTopicState)), !.aborted = TRUE]
                 ELSE UpdateValues_Paranoid(
                         [c EXCEPT !.previousTopicStateID = GetId(tpTopicState),
                                   !.mStateStore = MapPut(@, GetId(tpTopicState), tpTopicState)],
                         Tail(arTopicStates))
            ELSE UpdateValues_Paranoid(c, Tail(arTopicStates))

\* StateSnapshot::UpdateValues, on c = [mStateStore, previousTopicStateID,
\* dgLog, aborted]: a named entry whose id is that of the named entry before
\* it is logged ("Duplicate Detected") and stored like any other
RECURSIVE UpdateValues(_, _)
UpdateValues(c, arTopicStates) ==
    IF arTopicStates = <<>> THEN c
    ELSE LET tpTopicState == Head(arTopicStates)
         IN IF GetId(tpTopicState) # kAnonymousTopicState
            THEN LET logged == IF GetId(tpTopicState) = c.previousTopicStateID
                               THEN [c EXCEPT !.dgLog = Append(@, GetId(tpTopicState))]
                               ELSE c
                 IN UpdateValues(
                       [logged EXCEPT !.previousTopicStateID = GetId(tpTopicState),
                                      !.mStateStore = MapPut(@, GetId(tpTopicState), tpTopicState)],
                       Tail(arTopicStates))
            ELSE UpdateValues(c, Tail(arTopicStates))

\* A wrong StateSnapshot constructor: the map of the previous state is not
\* copied
StateSnapshot_FromEmpty(arPreviousState, arTopicStates) ==
    LET c == UpdateValues([mStateStore |-> <<>>,
                           previousTopicStateID |-> kAnonymousTopicState,
                           dgLog |-> <<>>, aborted |-> FALSE], arTopicStates)
    IN [snapshot |-> [live |-> TRUE, refs |-> 1, mStateStore |-> c.mStateStore,
                      mStateVersion |-> arPreviousState.mStateVersion + 1],
        dgLog |-> c.dgLog, aborted |-> c.aborted]

\* StateSnapshot::StateSnapshot(arPreviousState, arTopicStates): the new
\* snapshot, what it logged and whether an assertion stopped it
StateSnapshot_Extend(arPreviousState, arTopicStates) ==
    LET c == UpdateValues([mStateStore |-> arPreviousState.mStateStore,
                           previousTopicStateID |-> kAnonymousTopicState,
                           dgLog |-> <<>>, aborted |-> FALSE], arTopicStates)
    IN [snapshot |-> [live |-> TRUE, refs |-> 1, mStateStore |-> c.mStateStore,
                      mStateVersion |-> arPreviousState.mStateVersion + 1],
        dgLog |-> c.dgLog, aborted |-> c.aborted]

\* A wrong release: the object is deleted whoever else owns it
Release_AlwaysDeletes(heap, a) ==
    IF a = 0 THEN heap ELSE [heap EXCEPT ![a] = FreedMemory]

\* ptr::shared_ptr: one owner of the object at a lets go of it; the last one
\* deletes the object
Release(heap, a) ==
    IF a = 0 THEN heap
    ELSE IF heap[a].refs = 1 THEN [heap EXCEPT ![a] = FreedMemory]
    ELSE [heap EXCEPT ![a].refs = @ - 1]

\* operator new: the lowest address that holds no object
New(heap) == CHOOSE a \in SnapshotAddresses :
                /\ ~heap[a].live
                /\ \A b \in SnapshotAddresses : ~heap[b].live => a <= b

\* GraphStateStore stateStore; (GraphStateStore::GraphStateStore pushes the
\* zero state), no snapshot retrieved yet
StateStoreInit ==
    /\ mVertices = <<>>
    /\ mOutEdges = <<>>
    /\ mInDispatchers = <<>>
    /\ detectorMState = <<>>
    /\ mNeedsSorting = FALSE
    /\ mState = <<>>
    /\ mCurrentValues = <<>>
    /\ mInputQueue = <<>>
    /\ mOutputList = <<>>
    /\ mTimeoutDispatchers = <<>>
    /\ mDefaultHandle = -1
    /\ pc = "idle"
    /\ it = 0
    /\ ret = Returned("none", ErrorType_Success)
    /\ nextVal = 1
    /\ nOps = 0
    /\ inserted = <<>>
    /\ consumed = <<>>
    /\ dequeued = <<>>
    /\ pubLog = <<>>
    /\ evalLog = <<>>
    /\ mTimerDeadlines = <<>>
    /\ mElapsedTime = 0
    /\ mMetronomePeriodMsec = 0
    /\ mMetronomeTimerPeriod = 0
    /\ mPeriodicSeries = <<>>
    /\ armings = <<>>
    /\ app = [program |-> "GraphStateStoreTest",
              heap |-> [a \in SnapshotAddresses |->
                           IF a = 1 THEN StateSnapshot_Empty ELSE FreedMemory],
              mStatesLookbackQueue |-> <<1>>,
              consumerStateSnapshot |-> 0,
              retrieved |-> FreedMemory,
              taken |-> 0,
              previousState |-> FreedMemory,
              arTopicStates |-> <<>>,
              dgLog |-> <<>>,
              aborted |-> FALSE]
    /\ cout = <<>>

\* what the state store never touches: the graph and the timeout service
storeFrame == <<mVertices, mNeedsSorting, mState, mOutEdges, mInDispatchers,
                mCurrentValues, mInputQueue, mOutputList, mTimeoutDispatchers,
                mDefaultHandle, pc, it, ret, nextVal, nOps, inserted, consumed,
                dequeued, pubLog, evalLog, detectorMState, mTimerDeadlines,
                mElapsedTime, mMetronomePeriodMsec, mMetronomeTimerPeriod,
                mPeriodicSeries, armings, cout>>

\* GraphStateStore::TakeNewSnapshot(arTopicStates): new StateSnapshot from
\* mStatesLookbackQueue.back(), push, and pop when more than MaxLookBack = 2
\* are queued
TakeNewSnapshot(arTopicStates) ==
    /\ ~app.aborted
    /\ app.taken < MaxSnapshots
    /\ LET back == app.mStatesLookbackQueue[Len(app.mStatesLookbackQueue)]
           made == StateSnapshot_Extend(app.heap[back], arTopicStates)
           newState == New(app.heap)
           pushed == Append(app.mStatesLookbackQueue, newState)
           allocated == [app.heap EXCEPT ![newState] = made.snapshot]
       IN app' = IF made.aborted
                 THEN [app EXCEPT !.aborted = TRUE, !.dgLog = made.dgLog,
                                  !.taken = @ + 1,
                                  !.previousState = app.heap[back],
                                  !.arTopicStates = arTopicStates]
                 ELSE [app EXCEPT
                          !.heap = IF Len(pushed) > 2
                                   THEN Release(allocated, Head(pushed))
                                   ELSE allocated,
                          !.mStatesLookbackQueue = IF Len(pushed) > 2 THEN Tail(pushed)
                                                   ELSE pushed,
                          !.taken = @ + 1,
                          !.previousState = app.heap[back],
                          !.arTopicStates = arTopicStates,
                          !.dgLog = made.dgLog]
    /\ UNCHANGED storeFrame

\* consumerStateSnapshot = stateStore.GetLastState(): the test becomes one
\* more owner of mStatesLookbackQueue.back() and lets go of the snapshot it
\* held before
GetLastState ==
    /\ ~app.aborted
    /\ LET back == app.mStatesLookbackQueue[Len(app.mStatesLookbackQueue)]
           shared == [app.heap EXCEPT ![back].refs = @ + 1]
       IN /\ app.consumerStateSnapshot # back
          /\ app' = [app EXCEPT !.heap = Release(shared, app.consumerStateSnapshot),
                                !.consumerStateSnapshot = back,
                                !.retrieved = app.heap[back]]
    /\ UNCHANGED storeFrame

StateStoreNext ==
    \/ \E arTopicStates \in SeqsUpTo(TopicStates, MaxListLen) : TakeNewSnapshot(arTopicStates)
    \/ GetLastState

StateStoreSpec == StateStoreInit /\ [][StateStoreNext]_vars

----------------------------------------------------------------------------
(* The bounded (lite) build next to the full build: the feedback loop of    *)
(* test_lag.cpp (one LoopTestDetector, Lag<LoopTopicState>) with a timeout  *)
(* publisher service of two handles (test_timeoutpublisherservice.cpp),     *)
(* compiled with or without BUILD_FEATURE_DETECTORGRAPH_CONFIG_LITE.        *)
(* DG_ASSERT is assert (platform_standalone/dgassert.hpp): a failed         *)
(* assertion ends the program.  The bounded build keeps one input queue     *)
(* node per topic state type (GraphInputQueue::GetQueueNode) and one        *)
(* allocator node per dispatcher type (StaticTypedAllocator::GetNodeHeader),*)
(* each with a busy flag.                                                   *)

\* the PushData and ScheduleTimeout calls the program makes
MaxCalls == 2

\* the topic state types the program schedules on a timeout
TimeoutTypes == {"StartTopicState", "LoopTopicState"}

\* the handles GetUniqueTimerHandle has given the program (handleForA,
\* handleForB)
BuildHandles == {0, 1}

\* what no call made between two passes touches
buildFrame == <<mVertices, mNeedsSorting, mState, mOutEdges, mInDispatchers,
                mCurrentValues, mOutputList, mDefaultHandle, it, nOps,
                consumed, dequeued, pubLog, evalLog, detectorMState,
                mTimerDeadlines, mElapsedTime, mMetronomePeriodMsec,
                mMetronomeTimerPeriod, mPeriodicSeries, cout>>

\* Graph graph; ResolveTopic<StartTopicState>; ResolveTopic<Lagged<..>>;
\* LoopTestDetector detector(&graph); ResolveTopic<LoopTopicState>;
\* Lag<LoopTopicState> delayDetector(&graph); the timeout service and its two
\* handles.  queueBusy: InputQueueNode::busy of every type; allocatorBusy:
\* NodeHeader::busy of every Dispatcher<T>; aborted: the call whose DG_ASSERT
\* has failed.
BuildInit ==
    /\ LET g == Lag_Construct(
                  LoopTestDetector_ConstructAll(
                     [vertices |-> <<"StartTopicState", "Lagged">>,
                      edges |-> [v \in LagVertices |-> <<>>],
                      dispatchers |-> [d \in LoopTestDetectors \cup {"Lag"} |-> <<>>]],
                     1))
       IN /\ mVertices = g.vertices
          /\ mOutEdges = g.edges
          /\ mInDispatchers = g.dispatchers
          /\ detectorMState = [d \in Range(g.vertices) \cap LoopTestDetectors |-> 0]
    /\ mNeedsSorting = TRUE
    /\ mState = [v \in LagVertices |-> kVertexClear]
    /\ mCurrentValues = [t \in LagTopics |-> <<>>]
    /\ mInputQueue = <<>>
    /\ mOutputList = <<>>
    /\ mTimeoutDispatchers = <<NULL, NULL>>
    /\ mDefaultHandle = -1
    /\ pc = "idle"
    /\ it = 0
    /\ ret = Returned("none", ErrorType_Success)
    /\ nextVal = 1
    /\ nOps = 0
    /\ inserted = <<>>
    /\ consumed = <<>>
    /\ dequeued = <<>>
    /\ pubLog = [t \in LagTopics |-> <<>>]
    /\ evalLog = <<>>
    /\ mTimerDeadlines = <<>>
    /\ mElapsedTime = 0
    /\ mMetronomePeriodMsec = 0
    /\ mMetronomeTimerPeriod = 0
    /\ mPeriodicSeries = <<>>
    /\ armings = <<>>
    /\ \E lite \in BOOLEAN :
          app = [program |-> "BuildTest", LITE |-> lite, queueBusy |-> {},
                 allocatorBusy |-> {}, aborted |-> "none"]
    /\ cout = <<>>

\* A wrong lite Enqueue: a busy node is given the new topic state and is not
\* enqueued again (the clobbering the comment of Enqueue rejects)
GraphInputQueue_Enqueue_Clobbers(c, t, v, src) ==
    IF c.aborted # "none" THEN c
    ELSE IF c.LITE /\ t \in c.queueBusy
    THEN [c EXCEPT !.queue = [i \in DOMAIN c.queue |->
                                 IF c.queue[i].topic = t
                                 THEN [topic |-> t, data |-> v] ELSE c.queue[i]]]
    ELSE [c EXCEPT !.queue = Enqueue(@, t, v),
                   !.inserted = Append(@, [topic |-> t, data |-> v, src |-> src]),
                   !.queueBusy = IF c.LITE THEN @ \cup {t} ELSE @]

\* Graph::PushData<T>: GraphInputQueue::Enqueue on c = [queue, inserted,
\* queueBusy, aborted, LITE, ...].  Full build: the dispatcher is pushed onto
\* the queue.  Bounded build: DG_ASSERT(!node->busy) on the node of T, then
\* the node is filled, marked busy and linked at the tail.
GraphInputQueue_Enqueue(c, t, v, src) ==
    IF c.aborted # "none" THEN c
    ELSE IF c.LITE /\ t \in c.queueBusy
    THEN [c EXCEPT !.aborted = src]
    ELSE [c EXCEPT !.queue = Enqueue(@, t, v),
                   !.inserted = Append(@, [topic |-> t, data |-> v, src |-> src]),
                   !.queueBusy = IF c.LITE THEN @ \cup {t} ELSE @]

\* the enqueue context of a call made between two passes
BetweenPasses ==
    [queue |-> mInputQueue, inserted |-> inserted, queueBusy |-> app.queueBusy,
     aborted |-> app.aborted, LITE |-> app.LITE]

\* the outcome of an enqueue context becomes the state
Enqueued(c, a) ==
    /\ mInputQueue' = c.queue
    /\ inserted' = c.inserted
    /\ app' = [a EXCEPT !.queueBusy = c.queueBusy, !.aborted = c.aborted]
    /\ pc' = IF c.aborted # "none" THEN "aborted" ELSE pc

\* the PushData calls made so far
Pushes == SelectSeq(inserted, LAMBDA e : e.src = "push")

\* graph.PushData<StartTopicState>(0)
BuildPushData(t) ==
    /\ pc = "idle"
    /\ Len(Pushes) + Len(armings) < MaxCalls
    /\ Enqueued(GraphInputQueue_Enqueue(BetweenPasses, t, 0, "push"), app)
    /\ ret' = Returned("none", ErrorType_Success)
    /\ UNCHANGED <<buildFrame, mTimeoutDispatchers, armings, nextVal>>

\* A wrong StaticTypedAllocator::New: one node per handle instead of one per
\* type, so that it never finds its node busy
StaticTypedAllocator_New_PerHandle(busy, t) == [ok |-> TRUE, busy |-> busy \cup {t}]

\* StaticTypedAllocator::New<Dispatcher<T>>: DG_ASSERT(!node->busy) on the
\* node of the type, then the object is constructed in the node's storage
StaticTypedAllocator_New(busy, t) ==
    IF t \in busy THEN [ok |-> FALSE, busy |-> busy]
    ELSE [ok |-> TRUE, busy |-> busy \cup {t}]

\* StaticTypedAllocator::Delete: the node of the object is unlinked and no
\* longer busy
StaticTypedAllocator_Delete(busy, t) == busy \ {t}

\* TimeoutPublisherService::ScheduleTimeout<T>(aData, ms, aTimerHandle).
\* Bounded build: the dispatcher comes from mTimeoutDispatchersAllocator.New,
\* full build: from new; then ScheduleTimeoutDispatcher with its
\* DG_ASSERT(mTimeoutDispatchers[idx] == NULL).
BuildScheduleTimeout(t, aTimerHandle) ==
    /\ pc = "idle"
    /\ Len(Pushes) + Len(armings) < MaxCalls
    /\ ret' = Returned("none", ErrorType_Success)
    /\ nextVal' = nextVal + 1
    /\ LET alloc == IF app.LITE THEN StaticTypedAllocator_New(app.allocatorBusy, t)
                    ELSE [ok |-> TRUE, busy |-> app.allocatorBusy]
           arming == [handle |-> aTimerHandle, topic |-> t, data |-> nextVal]
       IN IF ~alloc.ok
          THEN /\ pc' = "aborted"
               /\ app' = [app EXCEPT !.aborted = "StaticTypedAllocator::New"]
               /\ armings' = Append(armings, arming @@ [fate |-> "aborted"])
               /\ UNCHANGED mTimeoutDispatchers
          ELSE IF mTimeoutDispatchers[aTimerHandle + 1] # NULL
          THEN /\ pc' = "aborted"
               /\ app' = [app EXCEPT !.aborted = "ScheduleTimeoutDispatcher",
                                     !.allocatorBusy = alloc.busy]
               /\ armings' = Append(armings, arming @@ [fate |-> "aborted"])
               /\ UNCHANGED mTimeoutDispatchers
          ELSE /\ pc' = pc
               /\ app' = [app EXCEPT !.allocatorBusy = alloc.busy]
               /\ armings' = Append(armings, arming @@ [fate |-> "pending"])
               /\ mTimeoutDispatchers' =
                     ScheduleTimeoutDispatcher(mTimeoutDispatchers, t, nextVal, aTimerHandle)
    /\ UNCHANGED <<buildFrame, mInputQueue, inserted>>

\* TimeoutPublisherService::CancelPublishOnTimeout: Cancel, then the
\* dispatcher is deleted (bounded build: mTimeoutDispatchersAllocator.Delete)
BuildCancelPublishOnTimeout(aHandle) ==
    /\ pc = "idle"
    /\ LET tDispatcher == mTimeoutDispatchers[aHandle + 1]
       IN IF tDispatcher # NULL
          THEN /\ mTimeoutDispatchers' = [mTimeoutDispatchers EXCEPT ![aHandle + 1] = NULL]
               /\ armings' = Settle(armings, aHandle, "cancelled")
               /\ app' = [app EXCEPT !.allocatorBusy =
                             IF app.LITE THEN StaticTypedAllocator_Delete(@, tDispatcher.topic)
                             ELSE @]
          ELSE UNCHANGED <<mTimeoutDispatchers, armings, app>>
    /\ ret' = Returned("none", ErrorType_Success)
    /\ UNCHANGED <<buildFrame, mInputQueue, inserted, pc, nextVal>>

\* TimeoutPublisherService::TimeoutExpired: tDispatcher->Dispatch(mrGraph),
\* that is Graph::PushData, then the dispatcher is deleted and the slot
\* emptied
BuildTimeoutExpired(aHandle) ==
    /\ pc = "idle"
    /\ LET tDispatcher == mTimeoutDispatchers[aHandle + 1]
       IN IF tDispatcher # NULL
          THEN LET c == GraphInputQueue_Enqueue(BetweenPasses, tDispatcher.topic,
                                                tDispatcher.data, "timer")
               IN IF c.aborted # "none"
                  THEN /\ Enqueued(c, app)
                       /\ UNCHANGED <<mTimeoutDispatchers, armings>>
                  ELSE /\ Enqueued(c, [app EXCEPT !.allocatorBusy =
                                          IF app.LITE
                                          THEN StaticTypedAllocator_Delete(@, tDispatcher.topic)
                                          ELSE @])
                       /\ mTimeoutDispatchers' =
                             [mTimeoutDispatchers EXCEPT ![aHandle + 1] = NULL]
                       /\ armings' = Settle(armings, aHandle, "fired")
          ELSE UNCHANGED <<mInputQueue, inserted, mTimeoutDispatchers, armings, app, pc>>
    /\ ret' = Returned("none", ErrorType_Success)
    /\ UNCHANGED <<buildFrame, nextVal>>

\* A wrong lite DequeueAndDispatch: the node of the dispatched input stays
\* busy until the pass is over
DequeueAndDispatch_Busy_UntilPassEnds(busy, taken) == busy

\* the busy flags after GraphInputQueue::DequeueAndDispatch (bounded build):
\* nextInput->Dispatch(); nextNode->busy = false
DequeueAndDispatch_Busy(busy, taken) ==
    busy \ {taken[i].topic : i \in DOMAIN taken}

\* EvaluateGraph up to the start of TraverseVertices, with the busy flag of
\* the dequeued node
BuildEvaluateGraph_Begin ==
    /\ pc = "idle"
    /\ LET ts == IF mNeedsSorting
                 THEN TopoSortGraph(mVertices, mOutEdges, mState, mNeedsSorting)
                 ELSE [r |-> ErrorType_Success, state |-> mState,
                       vertices |-> mVertices, needsSorting |-> mNeedsSorting]
       IN IF ts.r # ErrorType_Success
          THEN /\ mState' = ts.state
               /\ ret' = Returned("EvaluateGraph", ts.r)
               /\ UNCHANGED <<mVertices, mNeedsSorting, mCurrentValues,
                              mInputQueue, pc, it, consumed, app>>
               /\ dequeued' = <<>>
               /\ pubLog' = [t \in DOMAIN pubLog |-> <<>>]
          ELSE LET cleared == ClearTraverseContexts(ts.vertices, ts.state)
                   dq == DequeueAndDispatch([queue |-> mInputQueue,
                                             values |-> mCurrentValues,
                                             state |-> cleared])
               IN /\ mVertices' = ts.vertices
                  /\ mNeedsSorting' = ts.needsSorting
                  /\ mState' = dq.state
                  /\ mCurrentValues' = dq.values
                  /\ mInputQueue' = dq.queue
                  /\ dequeued' = dq.taken
                  /\ consumed' = consumed \o dq.taken
                  /\ pubLog' = LogInputs([t \in DOMAIN pubLog |-> <<>>], dq.taken)
                  /\ app' = [app EXCEPT !.queueBusy =
                                IF app.LITE THEN DequeueAndDispatch_Busy(@, dq.taken) ELSE @]
                  /\ pc' = "traverse"
                  /\ it' = 1
                  /\ ret' = Returned("none", ErrorType_Success)
    /\ evalLog' = <<>>
    /\ UNCHANGED <<detectorMState, mOutEdges, mInDispatchers, mOutputList, timerVars,
                   nextVal, nOps, inserted, armings, cout, mTimerDeadlines,
                   mElapsedTime, mMetronomePeriodMsec, mMetronomeTimerPeriod,
                   mPeriodicSeries>>

\* the Evaluate calls of Detector::ProcessVertex applied in order to
\* c = [values, state, mV, pubLog, queue, inserted, queueBusy, aborted, LITE];
\* Lag<T>::Evaluate is PublishOnFutureEvaluation(Lagged<T>(value)), that is
\* Graph::PushData.  Nothing runs after a failed assertion.
RECURSIVE BuildEvaluations(_, _)
BuildEvaluations(c, calls) ==
    IF calls = <<>> \/ c.aborted # "none" THEN c
    ELSE LET call == Head(calls)
             after == IF call.cb # "Evaluate" THEN c
                      ELSE IF call.det = "Lag"
                      THEN GraphInputQueue_Enqueue(c, "Lagged", Lagged(call.data), "future")
                      ELSE LoopTestDetector_Evaluate(c, call)
         IN BuildEvaluations(after, Tail(calls))

\* Graph::TraverseVertices, one iteration of its loop
BuildTraverseVertices_Step ==
    /\ pc = "traverse"
    /\ it <= Len(mVertices)
    /\ IF mVertices[it] \in LagTopics
       THEN /\ ProcessTopic(mVertices[it])
            /\ UNCHANGED <<app, pc>>
       ELSE LET d == mVertices[it]
                calls == Detector_Callbacks(mCurrentValues, mState, mInDispatchers[d], d)
                c == BuildEvaluations([values |-> mCurrentValues,
                                       state |-> Detector_ProcessVertex(mState, d),
                                       mV |-> detectorMState, pubLog |-> pubLog,
                                       queue |-> mInputQueue, inserted |-> inserted,
                                       queueBusy |-> app.queueBusy,
                                       aborted |-> app.aborted, LITE |-> app.LITE],
                                      calls)
            IN /\ evalLog' = evalLog \o calls
               /\ mCurrentValues' = c.values
               /\ mState' = c.state
               /\ detectorMState' = c.mV
               /\ pubLog' = c.pubLog
               /\ Enqueued(c, app)
               /\ UNCHANGED <<timerVars, nextVal>>
    /\ it' = it + 1
    /\ UNCHANGED <<mVertices, mNeedsSorting, mOutEdges, mInDispatchers, mOutputList,
                   ret, nOps, consumed, dequeued, armings, cout, mTimerDeadlines,
                   mElapsedTime, mMetronomePeriodMsec, mMetronomeTimerPeriod,
                   mPeriodicSeries>>

BuildNext ==
    \/ BuildPushData("StartTopicState")
    \/ \E t \in TimeoutTypes, h \in BuildHandles : BuildScheduleTimeout(t, h)
    \/ \E h \in BuildHandles : BuildCancelPublishOnTimeout(h)
    \/ \E h \in BuildHandles : BuildTimeoutExpired(h)
    \/ BuildEvaluateGraph_Begin
    \/ BuildTraverseVertices_Step
    \/ EvaluateGraph_End

BuildSpec == BuildInit /\ [][BuildNext]_vars

----------------------------------------------------------------------------
(* Vocabulary of the properties *)

InGraph(v) == v \in Range(mVertices)

\* EvaluateGraph has just returned
AfterEvaluate == pc = "idle" /\ ret.call = "EvaluateGraph"

\* EvaluateGraph has just returned success: a pass has just completed
AfterPass == AfterEvaluate /\ ret.r = ErrorType_Success

\* a pass is running or has just completed
InPass == pc = "traverse" \/ AfterPass

\* ProcessVertex of v has run in the current / last pass
Processed(v) ==
    /\ InPass
    /\ InGraph(v)
    /\ (pc = "traverse" => IndexOf(mVertices, v) < it)

\* the callbacks detector d received in the current / last pass
CallsOf(d) == SelectSeq(evalLog, LAMBDA e : e.det = d)

\* the values detector d was given by Evaluate for topic t, in call order
EvalsOf(d, t) ==
    LET calls == SelectSeq(evalLog, LAMBDA e : e.det = d /\ e.cb = "Evaluate" /\ e.topic = t)
    IN [i \in 1..Len(calls) |-> calls[i].data]

\* the topics detector d subscribes to / the detectors publishing to topic t
SubscribedTopics(d) == Range(mInDispatchers[d])
PublishersOf(t) == {p \in Detectors : InGraph(p) /\ t \in Range(mOutEdges[p])}

\* positions in evalLog of d's Evaluate calls for topic t
EvalPositions(d, t) ==
    {i \in 1..Len(evalLog) : evalLog[i].det = d /\ evalLog[i].cb = "Evaluate"
                             /\ evalLog[i].topic = t}

\* the vertices reachable from the set F in one to n steps along the
\* immediate edges that stay inside S
RECURSIVE ReachableWithin(_, _, _, _)
ReachableWithin(edges, S, F, n) ==
    IF n = 0 THEN {}
    ELSE LET step == {w \in S : \E u \in F : w \in Range(edges[u])}
         IN step \cup ReachableWithin(edges, S, step, n - 1)

\* the immediate edges between the vertices of S contain a cycle
HasCycle(edges, S) ==
    \E v \in S : v \in ReachableWithin(edges, S, {v}, Cardinality(S))

\* an immediate edge leads from a vertex of the vertex list to a vertex that
\* is not in the list
OutOfBoundsEdge(edges, verts) ==
    \E u \in Range(verts) : \E w \in Range(edges[u]) : w \notin Range(verts)

\* Vertex::MarkFutureEdge: the future out-edges detector d recorded in
\* SetupFuturePublishing and SetupTimeoutPublishing
FutureOutEdges(d) ==
    IF InGraph(d) THEN DetectorDefs[d].futs \o DetectorDefs[d].tmo ELSE <<>>

\* the immediate edges together with the future edges
WithFutureEdges(edges) ==
    [v \in DOMAIN edges |->
        IF v \in Detectors THEN edges[v] \o FutureOutEdges(v) ELSE edges[v]]

\* the queue entry (topic, data) of an enqueue recorded in the history
QueueEntry(e) == [topic |-> e.topic, data |-> e.data]

\* the entries of a sequence of queue or output entries that belong to topic t
OfTopic(entries, t) == SelectSeq(entries, LAMBDA e : e.topic = t)

----------------------------------------------------------------------------
(* C1..C10: the evaluation pass *)

\* C1: in a pass of a well-formed graph every value published to a topic T
\* (by the input dispatch or by a detector) is given, in that same pass, to
\* every subscriber of T; a processed subscriber received Evaluate calls for T
\* iff T is Done; and in the traversal order every publisher of T comes before
\* T, and T before every subscriber of T.
C1_PublishedReachesEverySubscriber ==
    /\ AfterPass =>
         \A d \in Detectors : InGraph(d) =>
            \A t \in SubscribedTopics(d) : EvalsOf(d, t) = pubLog[t]
    /\ InPass =>
         \A d \in Detectors : InGraph(d) =>
            \A t \in SubscribedTopics(d) :
               /\ IndexOf(mVertices, t) < IndexOf(mVertices, d)
               /\ \A p \in PublishersOf(t) : IndexOf(mVertices, p) < IndexOf(mVertices, t)
               /\ Processed(d) => /\ mState[t] # kVertexProcessing
                                  /\ (EvalsOf(d, t) # <<>>) <=> (mState[t] = kVertexDone)

\* C1 witness: a pass has completed in which a detector published a value to
\* a topic that has two subscribers, and both received it
C1_Witness ==
    /\ AfterPass
    /\ \E t \in Topics, d1, d2 \in Detectors :
          /\ d1 # d2 /\ InGraph(d1) /\ InGraph(d2)
          /\ t \in SubscribedTopics(d1) \cap SubscribedTopics(d2)
          /\ PublishersOf(t) # {}
          /\ dequeued # <<>> /\ dequeued[1].topic # t
          /\ pubLog[t] # <<>>
          /\ EvalsOf(d1, t) = pubLog[t] /\ EvalsOf(d2, t) = pubLog[t]

\* C2: after a pass, a detector with at least one subscribed topic that
\* received a value in the pass has run exactly once (BeginEvaluation, then
\* only Evaluate calls, then CompleteEvaluation) and is Done; any other
\* detector received no callback at all.
C2_DetectorRunsOnceIffInputs ==
    AfterPass =>
       \A d \in Detectors : InGraph(d) =>
          LET calls == CallsOf(d)
          IN IF \E t \in SubscribedTopics(d) : pubLog[t] # <<>>
             THEN /\ Len(calls) >= 3
                  /\ calls[1].cb = "BeginEvaluation"
                  /\ calls[Len(calls)].cb = "CompleteEvaluation"
                  /\ \A i \in 2..(Len(calls) - 1) : calls[i].cb = "Evaluate"
                  /\ mState[d] = kVertexDone
             ELSE calls = <<>>

\* C2 witness: a pass in which one detector ran and another did not
C2_Witness ==
    /\ AfterPass
    /\ \E d1, d2 \in Detectors :
          /\ InGraph(d1) /\ InGraph(d2)
          /\ Len(CallsOf(d1)) >= 3
          /\ CallsOf(d2) = <<>>

\* C3: when two topics A and B a detector subscribes to both hold values in a
\* pass, every Evaluate for A comes before every Evaluate for B iff the
\* detector subscribed to A before B.
C3_EvaluateInSubscribeOrder ==
    InPass =>
       \A d \in Detectors : InGraph(d) =>
          \A a, b \in SubscribedTopics(d) :
             (a # b /\ EvalPositions(d, a) # {} /\ EvalPositions(d, b) # {}) =>
                ((\A i \in EvalPositions(d, a), j \in EvalPositions(d, b) : i < j)
                 <=> IndexOf(mInDispatchers[d], a) < IndexOf(mInDispatchers[d], b))

\* C3 witness: a detector evaluated B before A, as subscribed, although A was
\* published and sorted before B
C3_Witness ==
    /\ AfterPass
    /\ \E d \in Detectors :
          /\ InGraph(d)
          /\ mInDispatchers[d] = <<"B", "A">>
          /\ EvalPositions(d, "A") # {} /\ EvalPositions(d, "B") # {}
          /\ \A i \in EvalPositions(d, "B"), j \in EvalPositions(d, "A") : i < j
          /\ IndexOf(mVertices, "A") < IndexOf(mVertices, "B")
          /\ pubLog["A"][1] < pubLog["B"][1]

\* C4: within a pass a topic holds exactly the values published to it in that
\* pass, in publish order (the first publish clears what the previous pass
\* left, later publishes append, whoever publishes), and a subscriber that has
\* been processed received one Evaluate per held value, in that order.
C4_TopicAccumulatesPassValues ==
    InPass =>
       \A t \in Topics : InGraph(t) =>
          /\ pubLog[t] # <<>> => mCurrentValues[t] = pubLog[t]
          /\ \A d \in Detectors :
                (InGraph(d) /\ t \in SubscribedTopics(d) /\ Processed(d)) =>
                   /\ EvalsOf(d, t) = pubLog[t]
                   /\ Len(EvalsOf(d, t)) = Len(mCurrentValues[t])

\* C4 witness: a topic that held a value from the previous pass received two
\* values in this pass, and a subscriber was given exactly these two
C4_Witness ==
    /\ AfterPass
    /\ Len(consumed) = 2
    /\ \E t \in Topics, d \in Detectors :
          /\ consumed[1].topic = t
          /\ InGraph(d) /\ t \in SubscribedTopics(d)
          /\ Len(pubLog[t]) = 2
          /\ mCurrentValues[t] = pubLog[t]
          /\ EvalsOf(d, t) = pubLog[t]
          /\ consumed[1].data \notin Range(mCurrentValues[t])

\* C5 (as stated): every completed pass has consumed exactly one input-queue
\* entry.
C5_ExactlyOneInputPerPass ==
    AfterPass => Len(dequeued) = 1

\* C5 (amended): an EvaluateGraph call consumes at most one input-queue entry.
\* When it starts a pass on a non-empty queue it removes the front entry and
\* publishes that entry, and nothing else, into its topic; on an empty queue
\* the pass starts with no input; a call that fails in the sort leaves the
\* queue alone; the rest of the call only ever appends to the queue.
C5_AtMostOneInputPerCall ==
    [][ /\ (pc = "idle" /\ pc' = "traverse") =>
             IF mInputQueue = <<>>
             THEN /\ mInputQueue' = <<>>
                  /\ dequeued' = <<>>
                  /\ mCurrentValues' = mCurrentValues
             ELSE LET nextInput == Head(mInputQueue)
                  IN /\ mInputQueue' = Tail(mInputQueue)
                     /\ dequeued' = <<nextInput>>
                     /\ mCurrentValues' =
                          [mCurrentValues EXCEPT ![nextInput.topic] = <<nextInput.data>>]
        /\ (pc = "idle" /\ pc' = "idle" /\ ret'.call = "EvaluateGraph") =>
             /\ mInputQueue' = mInputQueue
             /\ dequeued' = <<>>
        /\ pc = "traverse" =>
             /\ Len(mInputQueue') >= Len(mInputQueue)
             /\ SubSeq(mInputQueue', 1, Len(mInputQueue)) = mInputQueue
             /\ dequeued' = dequeued
      ]_vars

\* C5 witness: two inputs were queued, a pass completed, it consumed the
\* first and the second is still queued
C5_Witness ==
    /\ AfterPass
    /\ Len(inserted) = 2
    /\ inserted[1].src = "push" /\ inserted[2].src = "push"
    /\ Len(dequeued) = 1
    /\ dequeued[1].data = inserted[1].data
    /\ Len(mInputQueue) = 1
    /\ mInputQueue[1].data = inserted[2].data
    /\ pubLog[inserted[1].topic] # <<>>

C6_WitnessFutureAndTimer ==
    /\ InPass
    /\ Len(consumed) = 2
    /\ inserted[1].src = "push"
    /\ inserted[2].src \in {"future", "timer"}
    /\ dequeued = <<[topic |-> inserted[2].topic, data |-> inserted[2].data]>>

\* C7: after a completed pass the output list holds every value of every Done
\* topic exactly once and nothing else (every entry is a value published in
\* this pass to a topic that is Done); the values of one topic appear in
\* insertion order and the topics in vertex-list order, which is a
\* topological order of the graph.
C7_OutputListIsThisPass ==
    AfterPass =>
       /\ \A i \in 1..Len(mOutputList) :
             LET e == mOutputList[i]
             IN /\ InGraph(e.topic)
                /\ mState[e.topic] = kVertexDone
                /\ e.data \in Range(pubLog[e.topic])
       /\ \A t \in Topics : (InGraph(t) /\ mState[t] = kVertexDone) =>
             \A k \in 1..Len(mCurrentValues[t]) :
                Cardinality({i \in 1..Len(mOutputList) :
                               mOutputList[i] = [topic |-> t, data |-> mCurrentValues[t][k]]}) = 1
       /\ \A i, j \in 1..Len(mOutputList) : i < j =>
             LET a == mOutputList[i]
                 b == mOutputList[j]
             IN IF a.topic = b.topic
                THEN IndexOf(mCurrentValues[a.topic], a.data)
                        < IndexOf(mCurrentValues[a.topic], b.data)
                ELSE IndexOf(mVertices, a.topic) < IndexOf(mVertices, b.topic)
       /\ \A u \in Vertices : InGraph(u) =>
             \A w \in Range(mOutEdges[u]) :
                InGraph(w) /\ IndexOf(mVertices, u) < IndexOf(mVertices, w)

\* C7 witness: the second pass produced three outputs over two topics, two
\* of them in one topic, and the topic that received the first pass's input
\* contributes nothing
C7_Witness ==
    /\ AfterPass
    /\ Len(consumed) = 2
    /\ pubLog[consumed[1].topic] = <<>>
    /\ Len(mOutputList) = 3
    /\ mOutputList[1].topic # mOutputList[2].topic
    /\ mOutputList[2].topic = mOutputList[3].topic

\* C8: HasNewValue is the test "state is Done"; after a pass it is true
\* exactly for the topics that were published to during the pass, so a topic
\* that had a new value turns false again in the next pass that gives it
\* nothing.
C8_HasNewValueIffPublishedThisPass ==
    /\ \A t \in Topics : HasNewValue(t) <=> (mState[t] = kVertexDone)
    /\ AfterPass =>
          \A t \in Topics : InGraph(t) =>
             (HasNewValue(t) <=> pubLog[t] # <<>>)

\* C8 witness: the first pass published to a topic, the second pass did not,
\* and after the second pass the topic has no new value while another has
C8_Witness ==
    /\ AfterPass
    /\ Len(consumed) = 2
    /\ \E t, u \in Topics :
          /\ consumed[1].topic = t
          /\ pubLog[t] = <<>>
          /\ ~HasNewValue(t)
          /\ InGraph(u) /\ HasNewValue(u)

\* C9 (as stated): after every EvaluateGraph call every vertex is Clear or
\* Done.
C9_NoVertexProcessingAfterCall ==
    AfterEvaluate =>
       \A v \in Vertices : InGraph(v) => mState[v] \in {kVertexClear, kVertexDone}

\* C9 (amended): after every EvaluateGraph call that returns success every
\* vertex is Clear or Done; a call that fails does so in the topological sort
\* and returns with the vertices of the cycle it found still Processing.
C9_NoVertexProcessingAfterPass ==
    /\ AfterPass =>
          \A v \in Vertices : InGraph(v) => mState[v] \in {kVertexClear, kVertexDone}
    /\ (AfterEvaluate /\ ret.r # ErrorType_Success) =>
          /\ ret.r = ErrorType_BadConfiguration
          /\ mNeedsSorting
          /\ \E v \in Vertices : InGraph(v) /\ mState[v] = kVertexProcessing

\* C9 witness: a pass has completed in which one detector ran (Done) and
\* another did not (Clear)
C9_Witness ==
    /\ AfterPass
    /\ \E d1, d2 \in Detectors :
          /\ InGraph(d1) /\ mState[d1] = kVertexDone
          /\ InGraph(d2) /\ mState[d2] = kVertexClear
    /\ \E t \in Topics : InGraph(t) /\ mState[t] = kVertexDone

\* C10 (as stated): at every point a topic's values are non-empty iff its
\* state is Processing or Done.
C10_ValuesIffProcessingOrDone ==
    \A t \in Topics : InGraph(t) =>
       ((mCurrentValues[t] # <<>>) <=> mState[t] \in {kVertexProcessing, kVertexDone})

\* C10 (amended): right after a successful EvaluateGraph call a topic's values
\* are non-empty iff the topic is Done (and no topic is Processing); during a
\* pass a topic that is Processing or Done holds at least one value and a
\* topic already processed holds values only if it is Done.  A Clear topic not
\* yet processed may still hold the values of the previous pass.
C10_ValuesIffDoneAfterPass ==
    /\ AfterPass =>
          \A t \in Topics : InGraph(t) =>
             /\ mState[t] # kVertexProcessing
             /\ (mCurrentValues[t] # <<>>) <=> (mState[t] = kVertexDone)
    /\ pc = "traverse" =>
          \A t \in Topics : InGraph(t) =>
             /\ mState[t] \in {kVertexProcessing, kVertexDone} => mCurrentValues[t] # <<>>
             /\ Processed(t) => ((mCurrentValues[t] # <<>>) <=> (mState[t] = kVertexDone))

\* C10 witness: during the second pass a topic not yet processed is Clear and
\* still holds the value of the first pass, while the topic of the second
\* input is Processing and holds that input
C10_Witness ==
    /\ pc = "traverse"
    /\ Len(consumed) = 2
    /\ \E t, u \in Topics :
          /\ InGraph(t) /\ ~Processed(t)
          /\ mState[t] = kVertexClear
          /\ mCurrentValues[t] = <<consumed[1].data>>
          /\ mState[u] = kVertexProcessing
          /\ mCurrentValues[u] = <<consumed[2].data>>

----------------------------------------------------------------------------
(* C11..C20: topic state between passes, the topological sort, future     *)
(* publishing                                                              *)

\* C11 (as stated): between passes (here: once EvaluateGraph has returned
\* success) every topic is Clear and holds no value, and mid-pass only
\* Processing or Done topics hold values.
C11_TopicsClearAndEmptyBetweenPasses ==
    \A t \in Topics : InGraph(t) =>
       /\ AfterPass => (mState[t] = kVertexClear /\ mCurrentValues[t] = <<>>)
       /\ (pc = "traverse" /\ mCurrentValues[t] # <<>>) =>
             mState[t] \in {kVertexProcessing, kVertexDone}

\* C11 (amended): when EvaluateGraph returns success a topic published to in
\* the pass is Done and holds that pass's values, every other topic is Clear
\* and holds none.  Nothing done between passes changes a topic's values, and
\* only a topological sort changes a topic's state; the states are reset to
\* Clear by the next EvaluateGraph, which leaves the old values in place (but
\* for the topic of the input it dispatches); mid-pass a Clear topic holds
\* values only while it has not been processed yet, and these are then the
\* values it held when the pass began.
C11_TopicsKeepPassValuesBetweenPasses ==
    [][ /\ (pc' = "idle" /\ ret'.call = "EvaluateGraph" /\ ret'.r = ErrorType_Success) =>
             \A t \in Topics : t \in Range(mVertices') =>
                IF pubLog'[t] # <<>>
                THEN mState'[t] = kVertexDone /\ mCurrentValues'[t] = pubLog'[t]
                ELSE mState'[t] = kVertexClear /\ mCurrentValues'[t] = <<>>
        /\ (pc = "idle" /\ pc' = "idle") =>
             /\ mCurrentValues' = mCurrentValues
             /\ ret'.call = "none" => \A t \in Topics : mState'[t] = mState[t]
        /\ (pc = "idle" /\ pc' = "traverse") =>
             \A t \in Topics : t \in Range(mVertices') =>
                IF dequeued' # <<>> /\ dequeued'[1].topic = t
                THEN mState'[t] = kVertexProcessing
                ELSE mState'[t] = kVertexClear /\ mCurrentValues'[t] = mCurrentValues[t]
        /\ pc' = "traverse" =>
             \A t \in Topics :
                (t \in Range(mVertices') /\ mState'[t] = kVertexClear
                   /\ mCurrentValues'[t] # <<>>) =>
                      /\ IndexOf(mVertices', t) >= it'
                      /\ mCurrentValues'[t] = mCurrentValues[t]
      ]_vars

\* C11 witness: between two passes (a pass has run, the next input is queued,
\* no call is in progress) a topic is Done and still holds its value
C11_Witness ==
    /\ pc = "idle"
    /\ ret.call = "none"
    /\ Len(consumed) = 1
    /\ mInputQueue # <<>>
    /\ \E t \in Topics :
          /\ InGraph(t)
          /\ mState[t] = kVertexDone
          /\ mCurrentValues[t] = <<consumed[1].data>>

\* C12 (as stated): EvaluateGraph returns BadConfiguration iff the immediate
\* edges of the graph contain a cycle.
C12_BadConfigurationIffCycle ==
    AfterEvaluate =>
       ((ret.r = ErrorType_BadConfiguration) <=> HasCycle(mOutEdges, Range(mVertices)))

\* C12 (amended): TopoSortGraph returns BadConfiguration whenever the
\* immediate edges between the vertices of the vertex list contain a cycle,
\* and when it returns BadConfiguration there is such a cycle or an edge
\* leading out of the vertex list.  EvaluateGraph sorts only a graph marked as
\* needing it: marked and cyclic, it returns BadConfiguration; not marked, it
\* returns success whatever the edges are; when it returns BadConfiguration
\* the graph was marked and has a cycle or an out-of-bounds edge.
C12_CycleDetectedWhenSorting ==
    [][ LET cyclic == HasCycle(mOutEdges, Range(mVertices))
            outside == OutOfBoundsEdge(mOutEdges, mVertices)
        IN /\ ret'.call = "TopoSortGraph" =>
                /\ cyclic => ret'.r = ErrorType_BadConfiguration
                /\ ret'.r = ErrorType_BadConfiguration => (cyclic \/ outside)
                /\ ret'.r \in {ErrorType_Success, ErrorType_BadConfiguration}
           /\ ret'.call = "EvaluateGraph" =>
                /\ (mNeedsSorting /\ cyclic) => ret'.r = ErrorType_BadConfiguration
                /\ ret'.r = ErrorType_BadConfiguration =>
                      (mNeedsSorting /\ (cyclic \/ outside))
                /\ ~mNeedsSorting => ret'.r = ErrorType_Success
                /\ ret'.r \in {ErrorType_Success, ErrorType_BadConfiguration}
      ]_vars

\* C12 witness: EvaluateGraph has returned BadConfiguration on a graph of
\* three vertices, all edges inside the vertex list, that has a cycle
C12_Witness ==
    /\ AfterEvaluate
    /\ ret.r = ErrorType_BadConfiguration
    /\ Len(mVertices) = 3
    /\ ~OutOfBoundsEdge(mOutEdges, mVertices)
    /\ HasCycle(mOutEdges, Range(mVertices))

\* C13: whenever TopoSortGraph has been called on a graph in which an
\* immediate edge leads from a vertex of the vertex list to a vertex outside
\* the list, the call has returned BadConfiguration.
C13_OutOfBoundsEdgeAlwaysFails ==
    (pc = "idle" /\ ret.call = "TopoSortGraph"
       /\ OutOfBoundsEdge(mOutEdges, mVertices)) =>
          ret.r = ErrorType_BadConfiguration

\* C14: a graph whose immediate edges contain a cycle fails the first
\* EvaluateGraph made on it (EvaluateGraph returns BadConfiguration iff the
\* graph is cyclic), and a call that returns BadConfiguration has dequeued no
\* input, given no topic a value, left the output list alone and run no
\* detector callback: no pass has started.
C14_FailedEvaluateReachesNobody ==
    [][ ret'.call = "EvaluateGraph" =>
          /\ (ret'.r = ErrorType_BadConfiguration)
                <=> HasCycle(mOutEdges, Range(mVertices))
          /\ ret'.r # ErrorType_Success =>
                /\ pc = "idle" /\ pc' = "idle"
                /\ mInputQueue' = mInputQueue
                /\ consumed' = consumed
                /\ dequeued' = <<>>
                /\ mCurrentValues' = mCurrentValues
                /\ mOutputList' = mOutputList
                /\ evalLog' = <<>>
                /\ \A t \in Topics : pubLog'[t] = <<>>
                /\ mTimeoutDispatchers' = mTimeoutDispatchers
      ]_vars

\* C14 witness: EvaluateGraph has returned BadConfiguration on a cyclic graph
\* while an input is queued and a topic still holds the value of an earlier
\* pass; the input is still queued
C14_Witness ==
    /\ AfterEvaluate
    /\ ret.r = ErrorType_BadConfiguration
    /\ HasCycle(mOutEdges, Range(mVertices))
    /\ Len(consumed) = 1
    /\ Len(mInputQueue) = 1
    /\ \E t \in Topics : mCurrentValues[t] # <<>>
    /\ evalLog = <<>>

\* C15: a TopoSortGraph call that returns success leaves in the vertex list
\* exactly the vertices that were in it, each once, ordered so that for every
\* immediate edge u -> w between two of them u comes before w; and the graph
\* no longer needs sorting.
C15_SortedListIsTopologicalPermutation ==
    [][ (ret'.call = "TopoSortGraph" /\ ret'.r = ErrorType_Success) =>
           /\ Range(mVertices') = Range(mVertices)
           /\ Len(mVertices') = Len(mVertices)
           /\ Cardinality(Range(mVertices')) = Len(mVertices')
           /\ \A u, w \in Range(mVertices') :
                 w \in Range(mOutEdges'[u]) =>
                    IndexOf(mVertices', u) < IndexOf(mVertices', w)
           /\ ~mNeedsSorting'
      ]_vars

\* C15 witness: three vertices joined by two edges have been sorted
\* successfully into an order that is not the alphabetical one
C15_Witness ==
    /\ pc = "idle"
    /\ ret = Returned("TopoSortGraph", ErrorType_Success)
    /\ mVertices = <<"V2", "T1", "V1">>
    /\ "T1" \in Range(mOutEdges["V2"])
    /\ "V1" \in Range(mOutEdges["T1"])

\* C16: whatever states earlier calls, failed ones included, left on the
\* vertices, a TopoSortGraph or EvaluateGraph call made on a graph whose
\* immediate edges stay inside the vertex list and contain no cycle returns
\* success and leaves no vertex of the list Processing; so a call made after
\* the offending edge was removed succeeds.
C16_SortSucceedsOnceAcyclic ==
    [][ (ret'.call \in {"TopoSortGraph", "EvaluateGraph"}
           /\ ~HasCycle(mOutEdges, Range(mVertices))
           /\ ~OutOfBoundsEdge(mOutEdges, mVertices)) =>
              /\ ret'.r = ErrorType_Success
              /\ \A v \in Range(mVertices') : mState'[v] # kVertexProcessing
      ]_vars

\* C16 witness: EvaluateGraph failed on a cycle, one edge was removed, and
\* the TopoSortGraph call made next on the same graph has returned success
C16_Witness ==
    /\ pc = "idle"
    /\ ret = Returned("TopoSortGraph", ErrorType_Success)
    /\ evalLog # <<>>
    /\ evalLog[1].after = "EvaluateGraph"
    /\ Len(mVertices) = 3
    /\ ~OutOfBoundsEdge(mOutEdges, mVertices)

\* C16 second witness: TopoSortGraph failed on a cycle, one edge was removed,
\* and the EvaluateGraph call made next has returned success
C16_WitnessEvaluate ==
    /\ pc = "idle"
    /\ ret = Returned("EvaluateGraph", ErrorType_Success)
    /\ evalLog # <<>>
    /\ evalLog[1].after = "TopoSortGraph"
    /\ mNeedsSorting = FALSE
    /\ Len(mVertices) = 3

\* C17: future edges are ignored by cycle detection.  A constructed detector
\* has as immediate out-edges exactly the topics it set up for publishing:
\* the topics it future-publishes or timeout-publishes are recorded as future
\* edges only.  So whenever TopoSortGraph or EvaluateGraph is called on a
\* graph whose only loops are closed by a future edge, the call does not
\* return BadConfiguration: TopoSortGraph returns success and EvaluateGraph
\* goes on to its pass.
C17_FutureEdgesIgnoredByCycleDetection ==
    [][ /\ \A d \in Detectors :
              InGraph(d) => mOutEdges[d] = DetectorDefs[d].pubs
        /\ (pc = "idle" /\ (ret'.call # "none" \/ pc' = "traverse")
              /\ ~HasCycle(mOutEdges, Range(mVertices)))
             => /\ ret'.r = ErrorType_Success
                /\ ret'.call = "none" => pc' = "traverse"
      ]_vars

\* C17 witness: Splitter (In -> A, B) and Rev (subscribes B and A,
\* future-publishes In) are in the graph, so immediate and future edges
\* together form the loop In -> Splitter -> B -> Rev -> In; EvaluateGraph has
\* returned success on a pass in which Rev ran and future-published In.
C17_Witness ==
    /\ AfterPass
    /\ InGraph("Splitter") /\ InGraph("Rev")
    /\ HasCycle(WithFutureEdges(mOutEdges), Range(mVertices))
    /\ ~HasCycle(mOutEdges, Range(mVertices))
    /\ CallsOf("Rev") # <<>>
    /\ Len(inserted) = 2
    /\ inserted[2].src = "future" /\ inserted[2].topic = "In"
    /\ mInputQueue = <<[topic |-> "In", data |-> inserted[2].data]>>

\* C18: a value published with PublishOnFutureEvaluation during a pass goes
\* into the input queue and not into the pass.  The step of the pass in which
\* Lag runs appends one Lagged entry per value of LoopTopicState to the back
\* of the input queue, behind every entry already queued, and leaves the
\* Lagged topic (its values and its state) as it was; when the pass ends, the
\* Lagged entries of the output list are exactly the Lagged input the pass
\* dequeued at its start; and the queue is consumed in enqueue order, so a
\* later pass delivers the value after every input that was queued before it.
C18_FuturePublishGoesToQueue ==
    [][ /\ (pc = "traverse" /\ it <= Len(mVertices) /\ mVertices[it] = "Lag") =>
              LET new == SubSeq(inserted', Len(inserted) + 1, Len(inserted'))
                  held == IF mState["LoopTopicState"] = kVertexDone
                          THEN mCurrentValues["LoopTopicState"] ELSE <<>>
              IN /\ Len(new) = Len(held)
                 /\ \A i \in 1..Len(new) :
                       new[i] = [topic |-> "Lagged", data |-> Lagged(held[i]),
                                 src |-> "future"]
                 /\ mInputQueue' =
                       mInputQueue \o [i \in 1..Len(new) |-> QueueEntry(new[i])]
                 /\ mCurrentValues'["Lagged"] = mCurrentValues["Lagged"]
                 /\ mState'["Lagged"] = mState["Lagged"]
                 /\ pubLog'["Lagged"] = pubLog["Lagged"]
        /\ (pc = "traverse" /\ pc' = "idle") =>
              OfTopic(mOutputList', "Lagged") = OfTopic(dequeued, "Lagged")
        /\ [i \in 1..Len(inserted') |-> QueueEntry(inserted'[i])]
              = consumed' \o mInputQueue'
      ]_vars

\* C18 witness: a pass has just ended in which Lag future-published
\* Lagged{1} while a second StartTopicState was waiting in the queue: the
\* Lagged entry is queued behind it, the Lagged topic holds nothing and the
\* output list has the LoopTopicState value only
C18_Witness ==
    /\ AfterPass
    /\ consumed = <<[topic |-> "StartTopicState", data |-> 0]>>
    /\ mInputQueue = <<[topic |-> "StartTopicState", data |-> 0],
                       [topic |-> "Lagged", data |-> Lagged(1)]>>
    /\ inserted[3].src = "future"
    /\ mCurrentValues["Lagged"] = <<>>
    /\ mState["Lagged"] = kVertexClear
    /\ OfTopic(mOutputList, "Lagged") = <<>>
    /\ OfTopic(mOutputList, "LoopTopicState") # <<>>

\* C18, delivery: two passes later the Lagged{1} entry has been dequeued,
\* after the StartTopicState that was queued before it, and the Lagged topic
\* holds it as its new value
C18_WitnessDelivered ==
    /\ AfterPass
    /\ Len(consumed) = 3
    /\ consumed[2] = [topic |-> "StartTopicState", data |-> 0]
    /\ inserted[3].src = "future"
    /\ dequeued = <<[topic |-> "Lagged", data |-> Lagged(1)]>>
    /\ HasNewValue("Lagged")
    /\ mCurrentValues["Lagged"] = <<Lagged(1)>>

\* C19: what LoopTopicState holds in a pass reaches the subscribers of
\* Lagged<LoopTopicState> in a later pass, never in the same one.  When Lag
\* runs in a pass in which LoopTopicState holds new values, the entry it
\* enqueues last is a Lagged carrying the last of these values; the Lagged
\* values a subscriber is given in a pass are the Lagged input that pass
\* dequeued at its start, so none of them was future-published in the same
\* pass; and the pass that dequeues a Lagged entry gives it to every
\* subscriber of Lagged.
C19_LaggedCarriesLastValueToLaterPass ==
    [][ /\ (pc = "traverse" /\ it <= Len(mVertices) /\ mVertices[it] = "Lag"
              /\ mState["LoopTopicState"] = kVertexDone
              /\ mCurrentValues["LoopTopicState"] # <<>>) =>
              LET held == mCurrentValues["LoopTopicState"]
              IN /\ Len(inserted') > Len(inserted)
                 /\ inserted'[Len(inserted')] =
                       [topic |-> "Lagged", data |-> Lagged(held[Len(held)]),
                        src |-> "future"]
                 /\ mInputQueue'[Len(mInputQueue')] =
                       [topic |-> "Lagged", data |-> Lagged(held[Len(held)])]
                 /\ Len(consumed) < Len(inserted')
        /\ \A i \in 1..Len(evalLog') :
              (evalLog'[i].cb = "Evaluate" /\ evalLog'[i].topic = "Lagged") =>
                 dequeued' = <<[topic |-> "Lagged", data |-> evalLog'[i].data]>>
        /\ (pc = "traverse" /\ pc' = "idle") =>
              \A i \in 1..Len(dequeued) :
                 dequeued[i].topic = "Lagged" =>
                    \A d \in LoopTestDetectors :
                       InGraph(d) =>
                          EvalsOf(d, "Lagged") = <<dequeued[i].data>>
      ]_vars

\* C19 witness: LoopTopicState held 2 in an earlier pass, Lag future-published
\* Lagged{2}, and the pass that has just ended dequeued it and gave it to the
\* LoopTestDetector
C19_Witness ==
    /\ AfterPass
    /\ Len(consumed) = 3
    /\ inserted[3] = [topic |-> "Lagged", data |-> Lagged(2), src |-> "future"]
    /\ dequeued = <<[topic |-> "Lagged", data |-> Lagged(2)]>>
    /\ EvalsOf("LoopTestDetector", "Lagged") = <<Lagged(2)>>
    /\ HasNewValue("Lagged")

\* C19, several values in one pass: two LoopTestDetector instances have both
\* published LoopTopicState in this pass and Lag has enqueued one Lagged for
\* each value
C19_WitnessTwoValues ==
    /\ pc = "traverse"
    /\ it > Len(mVertices)
    /\ Len(mCurrentValues["LoopTopicState"]) = 2
    /\ Len(OfTopic(mInputQueue, "Lagged")) = 2
    /\ Len(consumed) = 1

\* The scenario of Test_FeedbackLoop: one LoopTestDetector, Lag, and one
\* StartTopicState pushed
FeedbackLoopScenario ==
    /\ DOMAIN detectorMState = {"LoopTestDetector"}
    /\ Len(Starts) = 1

\* a pass of the scenario that dequeued an input has just ended; it is pass
\* number Len(consumed)
ScenarioPassEnded == FeedbackLoopScenario /\ AfterPass /\ dequeued # <<>>

\* C20 as stated: the passes of the scenario carry the LoopTopicState values
\* 1..5, pass k has the new value k.  (Violated by pass 5, which publishes no
\* LoopTopicState.)
C20_FivePassesWithLoopValuesOneToFive ==
    ScenarioPassEnded =>
       /\ Len(consumed) <= 5
       /\ HasNewValue("LoopTopicState")
       /\ mCurrentValues["LoopTopicState"] = <<Len(consumed)>>

\* C20: in the scenario the inputs ever enqueued are StartTopicState,
\* Lagged{1}, .. Lagged{4}, one after the other.  Pass k (k = 1..5) leaves
\* the detector's value at k; passes 1..4 publish LoopTopicState{k} and leave
\* exactly one entry, Lagged{k}, in the queue; passes 2..5 have the new
\* Lagged value k-1; pass 5 publishes no LoopTopicState and leaves the queue
\* empty.  An EvaluateGraph call made on the empty queue changes nothing and
\* no topic has a new value.  With EvaluateGraph called again and again the
\* scenario reaches the end of pass 5 with an empty queue (unless another
\* StartTopicState is pushed).
C20_FeedbackLoopTerminatesAfterFivePasses ==
    /\ [](FeedbackLoopScenario =>
            /\ Len(inserted) <= 5
            /\ \A i \in 2..Len(inserted) :
                  inserted[i] = [topic |-> "Lagged", data |-> Lagged(i - 1),
                                 src |-> "future"]
            /\ ScenarioPassEnded =>
                  LET k == Len(consumed)
                  IN /\ k \in 1..5
                     /\ detectorMState["LoopTestDetector"] = k
                     /\ HasNewValue("LoopTopicState") <=> k <= 4
                     /\ k <= 4 =>
                          /\ mCurrentValues["LoopTopicState"] = <<k>>
                          /\ mInputQueue = <<[topic |-> "Lagged", data |-> Lagged(k)]>>
                     /\ HasNewValue("Lagged") <=> k >= 2
                     /\ k >= 2 => mCurrentValues["Lagged"] = <<Lagged(k - 1)>>
                     /\ k = 5 => mInputQueue = <<>> /\ Len(inserted) = 5
            /\ (AfterPass /\ dequeued = <<>>) =>
                  /\ mInputQueue = <<>>
                  /\ evalLog = <<>>
                  /\ mOutputList = <<>>
                  /\ \A t \in LagTopics : ~HasNewValue(t))
    /\ FeedbackLoopScenario ~>
          \/ ~FeedbackLoopScenario
          \/ (pc = "idle" /\ Len(consumed) = 5 /\ mInputQueue = <<>>)

\* C20 witness: the fifth pass of the scenario has just ended: it dequeued
\* Lagged{4}, the detector's value is 5, LoopTopicState has no new value and
\* the queue is empty
C20_Witness ==
    /\ ScenarioPassEnded
    /\ Len(consumed) = 5
    /\ dequeued = <<[topic |-> "Lagged", data |-> Lagged(4)]>>
    /\ detectorMState["LoopTestDetector"] = 5
    /\ ~HasNewValue("LoopTopicState")
    /\ HasNewValue("Lagged")
    /\ mInputQueue = <<>>

\* C20, the sixth EvaluateGraph of the test: nothing is dequeued, the
\* detector's value stays 5 and Lagged has no new value
C20_WitnessSixthCall ==
    /\ FeedbackLoopScenario
    /\ AfterPass
    /\ dequeued = <<>>
    /\ Len(consumed) = 5
    /\ detectorMState["LoopTestDetector"] = 5
    /\ ~HasNewValue("Lagged")

----------------------------------------------------------------------------
(* C21..C30: the example programs and the timeout publisher service *)

\* the output the documentation of counterwithreset.cpp lists, continued
DocumentedCounts == <<1, 2, 3, 4, 5, 0, 1, 2, 3, 4, 5, 0>>

\* the first n elements of a sequence
Prefix(seq, n) == SubSeq(seq, 1, n)

\* C21: in the program that calls PushData(EventHappened); EvaluateGraph()
\* seven times, every call runs one pass that dequeues one input, and pass j
\* publishes exactly one EventCount: 1, 2, 3, 4, 5, 0, 1 for j = 1..7.  The
\* Reset that ResetDetector future-publishes in pass 5 is the only input of
\* pass 6: that pass gives the detector no EventHappened, and the event pushed
\* before it stays queued, so that an EventHappened is still pending when the
\* seventh pass has ended.
C21_PushEvaluateYieldsCounts ==
    (app.program = "PushEvaluate" /\ AfterPass) =>
       LET j == Len(consumed)
       IN /\ j = app.i
          /\ Len(dequeued) = 1
          /\ HasNewValue("EventCount")
          /\ mCurrentValues["EventCount"] = <<DocumentedCounts[j]>>
          /\ pubLog["EventCount"] = <<DocumentedCounts[j]>>
          /\ j = 6 <=> dequeued[1].topic = "Reset"
          /\ dequeued[1].topic = "Reset" =>
                /\ EvalsOf("EventCountDetector", "EventHappened") = <<>>
                /\ inserted[6] = [topic |-> "Reset", data |-> 0, src |-> "future"]
          /\ j = 5 <=> mInputQueue = <<[topic |-> "Reset", data |-> 0]>>
          /\ j >= 6 <=> mInputQueue = <<[topic |-> "EventHappened", data |-> 0]>>

\* C21 witness: the seventh pass has ended with the count 1; the sixth input
\* consumed was the Reset
C21_Witness ==
    /\ app.program = "PushEvaluate"
    /\ AfterPass
    /\ app.i = 7
    /\ Len(consumed) = 7
    /\ consumed[6].topic = "Reset"
    /\ mCurrentValues["EventCount"] = <<1>>
    /\ detectorMState["EventCountDetector"] = 1

\* C22: in the program that calls ProcessData seven times, ProcessOutput is
\* called once for every pass (after the pass has ended and before the next
\* one starts), ProcessData returns only when the input queue is empty, and
\* the lines written are the documented ones; the Reset of the fifth call is
\* evaluated in a pass of that same call, so that the seven calls make eight
\* passes and write 1, 2, 3, 4, 5, 0, 1, 2.
C22_ProcessOutputOncePerPass ==
    app.program = "ProcessData" =>
       /\ app.outputs = Len(consumed) - (IF InPass /\ ~(pc = "idle" /\ ret.call = "none") THEN 1 ELSE 0)
       /\ cout = Prefix(DocumentedCounts, app.outputs)
       /\ (pc = "idle" /\ ~app.inProcessGraph) =>
             /\ mInputQueue = <<>>
             /\ app.outputs = Len(inserted)
             /\ app.outputs = app.i + (IF app.i >= 5 THEN 1 ELSE 0)

\* C22 witness: the seventh ProcessData has returned after eight
\* ProcessOutput calls
C22_Witness ==
    /\ app.program = "ProcessData"
    /\ pc = "idle"
    /\ ~app.inProcessGraph
    /\ app.i = 7
    /\ app.outputs = 8
    /\ cout = <<1, 2, 3, 4, 5, 0, 1, 2>>
    /\ mInputQueue = <<>>

\* C23 (as stated): an EvaluateGraph call made with an empty input queue
\* returns success, has evaluated no detector, and leaves every topic without
\* values, the output list empty and the input queue empty.  (A call that has
\* returned with nothing dequeued and the queue empty was made with the queue
\* empty: a pass on a non-empty queue dequeues, a failing call leaves the queue
\* alone.)
C23_EmptyQueueCallIsSuccessfulNoOp ==
    (AfterEvaluate /\ dequeued = <<>> /\ mInputQueue = <<>>) =>
       /\ ret.r = ErrorType_Success
       /\ evalLog = <<>>
       /\ \A t \in Topics : InGraph(t) => mCurrentValues[t] = <<>>
       /\ mOutputList = <<>>

\* C23 (amended): an EvaluateGraph call made with an empty input queue whose
\* topological sort does not fail is a successful no-op pass: it starts a pass
\* with every vertex Clear and nothing dequeued, the pass calls no detector,
\* publishes nothing and enqueues nothing, and it returns success with every
\* vertex Clear, every topic without values, the output list empty and the
\* queue empty.  A call that fails in the sort returns BadConfiguration and
\* leaves the topics' values, the output list and the queue as they were.
C23_EmptyQueueCallIsNoOpUnlessSortFails ==
    [][ /\ (pc = "idle" /\ pc' = "traverse" /\ mInputQueue = <<>>) =>
             /\ dequeued' = <<>>
             /\ mInputQueue' = <<>>
             /\ mCurrentValues' = mCurrentValues
             /\ \A v \in Range(mVertices') : mState'[v] = kVertexClear
        /\ (pc = "traverse" /\ dequeued = <<>>) =>
             /\ evalLog' = <<>>
             /\ \A t \in Topics : pubLog'[t] = <<>>
             /\ mInputQueue' = <<>>
             /\ inserted' = inserted
             /\ \A v \in Range(mVertices') : mState'[v] = kVertexClear
             /\ pc' = "idle" =>
                   /\ ret' = Returned("EvaluateGraph", ErrorType_Success)
                   /\ mOutputList' = <<>>
                   /\ \A t \in Topics : t \in Range(mVertices') => mCurrentValues'[t] = <<>>
        /\ (pc = "idle" /\ pc' = "idle" /\ ret'.call = "EvaluateGraph") =>
             /\ ret'.r = ErrorType_BadConfiguration
             /\ mNeedsSorting
             /\ UNCHANGED <<mCurrentValues, mOutputList, mInputQueue>>
      ]_vars

\* C23 witness: after a pass that consumed an input and produced output, a
\* further call on the empty queue has run a pass over a graph with a
\* subscribed detector and has returned with no output
C23_Witness ==
    /\ AfterPass
    /\ dequeued = <<>>
    /\ consumed # <<>>
    /\ mInputQueue = <<>>
    /\ mOutputList = <<>>
    /\ \E d \in Detectors : InGraph(d) /\ mInDispatchers[d] # <<>>
    /\ \A t \in Topics : InGraph(t) => mCurrentValues[t] = <<>>

\* C23 witness of the failing case: a call on the empty queue has returned
\* BadConfiguration and the output list of the last pass is still there
C23_WitnessSortFails ==
    /\ AfterEvaluate
    /\ ret.r = ErrorType_BadConfiguration
    /\ mInputQueue = <<>>
    /\ mOutputList # <<>>

\* the data of the entries of a queue, history or output list
DataOf(entries) == {entries[i].data : i \in DOMAIN entries}

\* the data held by the topics
TopicData == UNION {Range(mCurrentValues[t]) : t \in DOMAIN mCurrentValues}

\* the ScheduleTimeout calls made so far that had the given fate
ArmingsWith(fate) == {a \in Range(armings) : a.fate = fate}

\* the handles GetUniqueTimerHandle has returned
Handles == 0..(Len(mTimeoutDispatchers) - 1)

\* the step is the service's expiry of handle h: the platform's timer fired,
\* or the test service fired the next timeout and it was h's
ExpiryOf(h) ==
    \/ FireMockTimeout(h)
    \/ FireNextTimeout /\ GetNextTimeout(mTimerDeadlines) = h

\* C24: CancelPublishOnTimeout(h) leaves h's slot empty, enqueues nothing and
\* leaves the other slots alone; on a handle whose slot is empty already (never
\* armed, expired or cancelled) it changes nothing, so that cancelling twice is
\* cancelling once.  The value of an arming that was cancelled is never put
\* into the input queue, a topic or the output list, also when the timer of
\* its handle fires after the cancellation.
C24_CancelEmptiesSlotAndValueIsNeverPublished ==
    /\ [][ \A h \in Handles : CancelPublishOnTimeout(h) =>
              /\ mTimeoutDispatchers'[h + 1] = NULL
              /\ \A k \in Handles : k # h => mTimeoutDispatchers'[k + 1] = mTimeoutDispatchers[k + 1]
              /\ mInputQueue' = mInputQueue
              /\ inserted' = inserted
              /\ mTimeoutDispatchers[h + 1] = NULL =>
                    UNCHANGED <<mTimeoutDispatchers, mTimerDeadlines, mElapsedTime, armings,
                                mInputQueue, inserted, mCurrentValues, mOutputList>>
         ]_vars
    /\ [](\A a \in ArmingsWith("cancelled") :
             /\ a.data \notin DataOf(inserted)
             /\ a.data \notin DataOf(mInputQueue)
             /\ a.data \notin TopicData
             /\ a.data \notin DataOf(mOutputList)
             /\ a.data \notin DataOf(mTimeoutDispatchers))

\* C24 witness: a timeout was scheduled and cancelled, then the timer of the
\* handle fired all the same and a pass has run: nothing was ever enqueued
C24_Witness ==
    /\ AfterPass
    /\ Len(armings) = 1
    /\ armings[1].fate = "cancelled"
    /\ app.call = "TimeoutExpired"
    /\ app.handle = armings[1].handle
    /\ mTimerDeadlines[armings[1].handle] = kInvalidMaxOffset
    /\ inserted = <<>>
    /\ mOutputList = <<>>

\* C25: when the timer of handle h expires TimeoutExpired(h) appends the value
\* stored in h's slot to the input queue and empties the slot, and touches no
\* topic and not the output list; on an empty slot it enqueues nothing.  The
\* value of an arming is enqueued at most once (once when it has fired, never
\* otherwise), and what a topic or the output list holds has been dequeued by
\* an EvaluateGraph before.
C25_ExpiryEnqueuesStoredValueOnce ==
    /\ [][ \A h \in Handles : ExpiryOf(h) =>
              /\ mCurrentValues' = mCurrentValues
              /\ mOutputList' = mOutputList
              /\ mTimeoutDispatchers'[h + 1] = NULL
              /\ IF mTimeoutDispatchers[h + 1] # NULL
                 THEN /\ mInputQueue' = Append(mInputQueue,
                                          [topic |-> mTimeoutDispatchers[h + 1].topic,
                                           data |-> mTimeoutDispatchers[h + 1].data])
                      /\ Len(inserted') = Len(inserted) + 1
                 ELSE /\ mInputQueue' = mInputQueue
                      /\ inserted' = inserted
         ]_vars
    /\ [](/\ \A a \in Range(armings) :
                Cardinality({i \in DOMAIN inserted : inserted[i].data = a.data})
                   = IF a.fate = "fired" THEN 1 ELSE 0
          /\ TopicData \subseteq DataOf(consumed)
          /\ DataOf(mOutputList) \subseteq DataOf(consumed)
          /\ Len(consumed) + Len(mInputQueue) = Len(inserted))

\* C25 witness: a timeout fired, a pass has made its value visible, and the
\* timer of the handle has fired once more without re-arming: nothing more
\* was enqueued
C25_Witness ==
    /\ pc = "idle"
    /\ ret.call = "none"
    /\ app.call \in {"TimeoutExpired", "FireNextTimeout"}
    /\ Len(armings) = 1
    /\ armings[1].fate = "fired"
    /\ app.handle = armings[1].handle
    /\ Len(inserted) = 1
    /\ Len(consumed) = 1
    /\ mInputQueue = <<>>
    /\ mOutputList = <<[topic |-> armings[1].topic, data |-> armings[1].data]>>

\* C25 witness: a pass has run before the expiry, the expiry has enqueued the
\* value and no pass has run since: no topic holds it
C25_WitnessNotYetVisible ==
    /\ pc = "idle"
    /\ Len(armings) = 1
    /\ armings[1].fate = "fired"
    /\ mInputQueue = <<[topic |-> armings[1].topic, data |-> armings[1].data]>>
    /\ TopicData = {}
    /\ ~mNeedsSorting
    /\ consumed = <<>>

\* C26: HasTimeoutExpired(h) is true iff h's slot is empty, which is the case
\* iff no ScheduleTimeout on h is pending: it turns false only by a
\* ScheduleTimeout on h and true only by the TimeoutExpired or the
\* CancelPublishOnTimeout of h.
C26_HasTimeoutExpiredIffSlotEmpty ==
    /\ [](\A h \in Handles :
             /\ HasTimeoutExpired(h) <=> mTimeoutDispatchers[h + 1] = NULL
             /\ HasTimeoutExpired(h) <=> ~\E a \in ArmingsWith("pending") : a.handle = h)
    /\ [][ \A h \in Handles :
              /\ (HasTimeoutExpired(h) /\ ~HasTimeoutExpired(h)') =>
                    /\ app'.call = "ScheduleTimeout"
                    /\ app'.handle = h
              /\ (~HasTimeoutExpired(h) /\ HasTimeoutExpired(h)') =>
                    /\ app'.call \in {"TimeoutExpired", "FireNextTimeout", "CancelPublishOnTimeout"}
                    /\ app'.handle = h
         ]_vars

\* C26 witness: one handle was never armed, one has a timeout pending, and an
\* earlier timeout of that one was cancelled
C26_Witness ==
    \E h1, h2 \in Handles :
       /\ HasTimeoutExpired(h1)
       /\ \A a \in Range(armings) : a.handle = h2
       /\ ~HasTimeoutExpired(h2)
       /\ Len(armings) = 2
       /\ armings[1].fate = "cancelled"
       /\ armings[2].fate = "pending"

\* C26 witness: the timeout of a handle has fired and the handle reads
\* expired
C26_WitnessFired ==
    \E h \in Handles :
       /\ HasTimeoutExpired(h)
       /\ app.call = "FireNextTimeout"
       /\ app.handle = h
       /\ \E a \in ArmingsWith("fired") : a.handle = h

\* C27 (as stated): a ScheduleTimeout on a handle whose timeout is pending
\* resets it: the call returns, the slot holds the new value, the timer runs
\* to the new deadline, and the value of the previous arming is never enqueued.
C27_RescheduleResetsPendingTimeout ==
    /\ [][ \A h \in Handles :
              (/\ Len(armings') = Len(armings) + 1
               /\ armings'[Len(armings')].handle = h
               /\ mTimeoutDispatchers[h + 1] # NULL) =>
                  /\ pc' = "idle"
                  /\ mTimeoutDispatchers'[h + 1].data = nextVal
                  /\ armings'[Len(armings')].fate = "pending"
                  /\ \E ms \in TimeoutsMsec : mTimerDeadlines'[h] = mElapsedTime + ms
         ]_vars
    /\ [](\A a \in ArmingsWith("overwritten") : a.data \notin DataOf(inserted))

\* the state the failing input of C27 ends in: the second ScheduleTimeout on
\* the pending handle has aborted the program
C27_Aborted ==
    /\ pc = "aborted"
    /\ Len(armings) = 2
    /\ armings[1].fate = "pending"
    /\ armings[2].fate = "aborted"
    /\ armings[1].handle = armings[2].handle

\* C28: a ScheduleTimeout, a CancelPublishOnTimeout or an expiry of handle h1
\* leaves the slot, the deadline and the expired status of every other handle
\* h2 as they were, and a value is enqueued only by the expiry of the handle it
\* was scheduled on.
C28_HandlesAreIndependent ==
    [][ /\ \A h1 \in Handles :
              (\/ \E ms \in TimeoutsMsec : ScheduleTimeout(TopicOfHandle(h1), ms, h1)
               \/ CancelPublishOnTimeout(h1)
               \/ ExpiryOf(h1)) =>
                 \A h2 \in Handles \ {h1} :
                    /\ mTimeoutDispatchers'[h2 + 1] = mTimeoutDispatchers[h2 + 1]
                    /\ HasTimeoutExpired(h2)' = HasTimeoutExpired(h2)
                    /\ h2 \in DOMAIN mTimerDeadlines =>
                          mTimerDeadlines'[h2] = mTimerDeadlines[h2]
                    /\ h2 \notin DOMAIN mTimerDeadlines => h2 \notin DOMAIN mTimerDeadlines'
        /\ inserted' # inserted =>
              /\ Len(inserted') = Len(inserted) + 1
              /\ app'.call \in {"TimeoutExpired", "FireNextTimeout"}
              /\ \E a \in ArmingsWith("pending") :
                    /\ a.handle = app'.handle
                    /\ a.data = inserted'[Len(inserted')].data
                    /\ a.topic = inserted'[Len(inserted')].topic
                    /\ mTimeoutDispatchers[a.handle + 1].data = a.data
      ]_vars

\* C28 witness: timeouts were pending on two handles, the one scheduled second
\* has fired and its value has been delivered by a pass while the other is
\* still pending
C28_Witness ==
    /\ AfterPass
    /\ Len(armings) = 2
    /\ armings[1].handle # armings[2].handle
    /\ armings[1].fate = "pending"
    /\ armings[2].fate = "fired"
    /\ ~HasTimeoutExpired(armings[1].handle)
    /\ HasTimeoutExpired(armings[2].handle)
    /\ mCurrentValues[armings[2].topic] = <<armings[2].data>>
    /\ mCurrentValues[armings[1].topic] = <<>>


\* the periods registered so far, in the order of registration
RegisteredPeriods == [i \in DOMAIN mPeriodicSeries |-> mPeriodicSeries[i].mPublishingPeriodMsec]

\* the greatest common divisor of the periods registered so far, by its
\* definition: the largest number that divides every one of them (0 while
\* none is registered, as gcd has it)
GreatestCommonDivisor ==
    IF mPeriodicSeries = <<>> THEN 0
    ELSE CHOOSE d \in 1..RegisteredPeriods[1] :
            /\ \A i \in DOMAIN mPeriodicSeries : RegisteredPeriods[i] % d = 0
            /\ \A e \in 1..RegisteredPeriods[1] :
                  (\A i \in DOMAIN mPeriodicSeries : RegisteredPeriods[i] % e = 0) => e <= d

\* every series was registered before StartPeriodicPublishing
AllRegisteredBeforeStart ==
    \A i \in DOMAIN mPeriodicSeries : ~mPeriodicSeries[i].afterStart

\* C29: the metronome period (mMetronomePeriodMsec) always equals the greatest
\* common divisor of all periods registered so far with
\* SchedulePeriodicPublishing: 9 ms and 15 ms give 3 ms, a single series gives
\* its own period; and the metronome that StartPeriodicPublishing arms after
\* the registrations runs with that period.
C29_MetronomePeriodIsGcdOfPeriods ==
    /\ mMetronomePeriodMsec = GreatestCommonDivisor
    /\ RegisteredPeriods = <<9, 15>> => mMetronomePeriodMsec = 3
    /\ Len(mPeriodicSeries) = 1 => mMetronomePeriodMsec = RegisteredPeriods[1]
    /\ (app.started /\ mPeriodicSeries # <<>> /\ AllRegisteredBeforeStart)
          => mMetronomeTimerPeriod = GreatestCommonDivisor

\* series of 9 ms and 15 ms are registered, the metronome runs every 3 ms
C29_Witness ==
    /\ RegisteredPeriods = <<9, 15>>
    /\ mMetronomePeriodMsec = 3
    /\ app.started
    /\ mMetronomeTimerPeriod = 3
    /\ mElapsedTime >= 9

\* a third series lowers the metronome period below both earlier ones
C29_WitnessThree ==
    /\ RegisteredPeriods = <<45, 15, 6>>
    /\ mMetronomePeriodMsec = 3

\* C30: each periodic series with period p publishes its topic exactly once
\* per p milliseconds of metronome time, independently of the other series:
\* its dispatches number the metronome milliseconds added to it divided by p,
\* the remainder being its accumulator, and each dispatch is one input for its
\* topic; when all series are registered before the start, metronome time is
\* the elapsed time, and series of 9 ms, 15 ms and 45 ms (metronome 3 ms) have
\* fired 10, 6 and 2 times after 90 ms.
C30_SeriesFiresOncePerPeriod ==
    /\ \A i \in DOMAIN mPeriodicSeries :
          LET s == mPeriodicSeries[i]
          IN /\ s.fired = s.metronomeTime \div s.mPublishingPeriodMsec
             /\ s.mMetronomeAccumulator = s.metronomeTime % s.mPublishingPeriodMsec
             /\ s.fired = Cardinality({k \in DOMAIN inserted : inserted[k].topic = s.topic})
             /\ (app.started /\ AllRegisteredBeforeStart) => s.metronomeTime = mElapsedTime
    /\ (RegisteredPeriods = <<9, 15, 45>> /\ AllRegisteredBeforeStart /\ mElapsedTime = 90)
          => /\ mMetronomeTimerPeriod = 3
             /\ mPeriodicSeries[1].fired = 10
             /\ mPeriodicSeries[2].fired = 6
             /\ mPeriodicSeries[3].fired = 2

\* series of 9 ms, 15 ms and 45 ms, 90 ms later, every dispatch evaluated
C30_Witness ==
    /\ RegisteredPeriods = <<9, 15, 45>>
    /\ AllRegisteredBeforeStart
    /\ mElapsedTime = 90
    /\ mPeriodicSeries[1].fired = 10
    /\ mPeriodicSeries[2].fired = 6
    /\ mPeriodicSeries[3].fired = 2
    /\ mInputQueue = <<>>
    /\ pc = "idle"
    /\ Len(consumed) = 18

\* a series registered after the start has seen less metronome time than has
\* elapsed
C30_WitnessRegisteredLater ==
    /\ \E i \in DOMAIN mPeriodicSeries :
          /\ mPeriodicSeries[i].afterStart
          /\ mPeriodicSeries[i].fired >= 1
          /\ mPeriodicSeries[i].metronomeTime < mElapsedTime


----------------------------------------------------------------------------
(* C31..C40: recurring timers, state snapshots, the bounded build *)

\* the passes made so far that carried a RecurringTestTimeout
TimerPasses == Len(SelectSeq(consumed, IsRecurringTestTimeout))

\* the ForwardTimeAndEvaluate call that has just returned was made while the
\* timeout was armed and no Stop requested
ForwardedWhileArmed ==
    /\ app.phase = "none"
    /\ app.requests = <<RecurringTestRequest_Start>>
    /\ ret.call = "ForwardTimeAndEvaluate"
    /\ app.armedAtCall

\* C31: a detector that subscribes to its own timeout-published topic and
\* re-arms the same timer with delay d on each receipt produces exactly one
\* timer pass per d milliseconds of forwarded time: between its start and its
\* stop the timer has fired (elapsed time since the start) div d times, each
\* firing has been evaluated in a pass of its own when ForwardTimeAndEvaluate
\* returns, and with d = 200 ms a call forwarding 200 ms makes one pass that
\* leaves the topic with a new value, a call forwarding 1000 ms five passes.
C31_OneTimerPassPerDelay ==
    /\ (app.requests = <<RecurringTestRequest_Start>> /\ app.startTime >= 0)
          => /\ Len(SelectSeq(inserted, IsRecurringTestTimeout))
                   = (mElapsedTime - app.startTime) \div app.delay
             /\ (pc = "idle" /\ mInputQueue = <<>>)
                   => TimerPasses = (mElapsedTime - app.startTime) \div app.delay
    /\ ForwardedWhileArmed
          => LET fwd == app.forwards[Len(app.forwards)]
             IN /\ mInputQueue = <<>>
                /\ TimerPasses - app.passesAtCall
                      = ((mElapsedTime - app.startTime) \div app.delay)
                        - ((mElapsedTime - fwd - app.startTime) \div app.delay)
                /\ (app.delay = 200 /\ fwd = 200)
                      => /\ TimerPasses - app.passesAtCall = 1
                         /\ HasNewValue("RecurringTestTimeout")
                         /\ Len(mCurrentValues["RecurringTestTimeout"]) = 1
                /\ (app.delay = 200 /\ fwd = 1000)
                      => TimerPasses - app.passesAtCall = 5

\* the seed at time 0, 200 ms forwarded, then 1000 ms: six timer passes
C31_Witness ==
    /\ ForwardedWhileArmed
    /\ app.delay = 200
    /\ app.startTime = 0
    /\ app.forwards = <<200, 1000>>
    /\ app.passesAtCall = 1
    /\ TimerPasses = 6
    /\ mElapsedTime = 1200

\* the first call of the scenario: 200 ms forwarded, one timer pass
C31_WitnessFirstCall ==
    /\ ForwardedWhileArmed
    /\ app.delay = 200
    /\ app.forwards = <<200>>
    /\ TimerPasses = 1
    /\ HasNewValue("RecurringTestTimeout")


\* the snapshot the last TakeNewSnapshot call has made, s = extend(p, list)
\* with p = app.previousState and list = app.arTopicStates
LastSnapshot == app.heap[app.mStatesLookbackQueue[Len(app.mStatesLookbackQueue)]]

\* a TakeNewSnapshot call has returned
SnapshotTaken == app.program = "GraphStateStoreTest" /\ app.taken > 0 /\ ~app.aborted

IsNamed(aTopicState) == GetId(aTopicState) # kAnonymousTopicState

\* the ids of the named topic states of a list
NamedIds(list) == {GetId(list[i]) : i \in {j \in DOMAIN list : IsNamed(list[j])}}

\* the last entry of list with the given id
LastWithId(list, id) ==
    list[CHOOSE i \in DOMAIN list :
            /\ GetId(list[i]) = id
            /\ \A j \in DOMAIN list : GetId(list[j]) = id => j <= i]

\* C32 as stated: for every snapshot s = extend(p, list), s.version =
\* p.version + 1; for every named value v in list, s.get_by_id(v.id) = v; for
\* every id i not in list, s.get_by_id(i) = p.get_by_id(i); anonymous values
\* in list are ignored.
C32_ExtendStoresEveryNamedValue ==
    SnapshotTaken =>
       LET s == LastSnapshot
           p == app.previousState
           list == app.arTopicStates
       IN /\ s.mStateVersion = p.mStateVersion + 1
          /\ \A i \in DOMAIN list :
                IsNamed(list[i]) => GetState(s, GetId(list[i])) = list[i]
          /\ \A id \in {PacketTypeAId, PacketTypeBId} \ NamedIds(list) :
                GetState(s, id) = GetState(p, id)
          /\ kAnonymousTopicState \notin DOMAIN s.mStateStore

\* C32, amended: for every snapshot s = extend(p, list), s.version =
\* p.version + 1; for every id carried by a named value in list,
\* s.get_by_id(id) is the last value of list with that id; for every id i not
\* in list, s.get_by_id(i) = p.get_by_id(i); anonymous values in list are
\* ignored.
C32_ExtendStoresLastNamedValue ==
    SnapshotTaken =>
       LET s == LastSnapshot
           p == app.previousState
           list == app.arTopicStates
       IN /\ s.mStateVersion = p.mStateVersion + 1
          /\ \A id \in NamedIds(list) : GetState(s, id) = LastWithId(list, id)
          /\ \A id \in {PacketTypeAId, PacketTypeBId} \ NamedIds(list) :
                GetState(s, id) = GetState(p, id)
          /\ DOMAIN s.mStateStore = DOMAIN p.mStateStore \cup NamedIds(list)
          /\ kAnonymousTopicState \notin DOMAIN s.mStateStore

\* an extension that replaces PacketTypeA, ignores an anonymous value and
\* keeps the PacketTypeB of the previous snapshot
C32_Witness ==
    /\ SnapshotTaken
    /\ app.arTopicStates = <<[id |-> PacketTypeAId, mV |-> 2],
                             [id |-> kAnonymousTopicState, mV |-> 1]>>
    /\ GetState(app.previousState, PacketTypeAId) = [id |-> PacketTypeAId, mV |-> 1]
    /\ GetState(app.previousState, PacketTypeBId) = [id |-> PacketTypeBId, mV |-> 1]
    /\ GetState(LastSnapshot, PacketTypeAId) = [id |-> PacketTypeAId, mV |-> 2]
    /\ GetState(LastSnapshot, PacketTypeBId) = [id |-> PacketTypeBId, mV |-> 1]
    /\ LastSnapshot.mStateVersion = 3

\* an extension by a list that carries PacketTypeA twice: the second value is
\* the one stored
C32_WitnessSameIdTwice ==
    /\ SnapshotTaken
    /\ app.arTopicStates = <<[id |-> PacketTypeAId, mV |-> 1],
                             [id |-> PacketTypeAId, mV |-> 2]>>
    /\ GetState(LastSnapshot, PacketTypeAId) = [id |-> PacketTypeAId, mV |-> 2]

\* the named entries of a list, in order
NamedOf(list) == SelectSeq(list, IsNamed)

\* the named entries of list that carry the id of the named entry before them
ConsecutiveDuplicates(list) ==
    {i \in 2..Len(NamedOf(list)) : GetId(NamedOf(list)[i]) = GetId(NamedOf(list)[i - 1])}

\* the last TakeNewSnapshot call was given a list with two consecutive
\* entries of the same id
ExtendedWithConsecutiveDuplicate ==
    /\ app.program = "GraphStateStoreTest"
    /\ app.taken > 0
    /\ ConsecutiveDuplicates(app.arTopicStates) # {}

C33_WitnessNotConsecutive ==
    /\ SnapshotTaken
    /\ app.arTopicStates = <<[id |-> PacketTypeAId, mV |-> 1],
                             [id |-> PacketTypeBId, mV |-> 1],
                             [id |-> PacketTypeAId, mV |-> 2]>>
    /\ app.dgLog = <<>>

\* C34: snapshots are immutable after construction: a snapshot obtained from
\* GetLastState keeps the same version and the same id-to-value map across
\* any number of later TakeNewSnapshot calls, even after the store has
\* dropped it from its two-entry lookback queue.
C34_RetrievedSnapshotNeverChanges ==
    (app.program = "GraphStateStoreTest" /\ app.consumerStateSnapshot # 0) =>
       LET s == app.heap[app.consumerStateSnapshot]
       IN /\ s.live
          /\ s.mStateVersion = app.retrieved.mStateVersion
          /\ s.mStateStore = app.retrieved.mStateStore

\* the snapshot the test holds was retrieved three snapshots ago and has left
\* the lookback queue; the store has moved on to other values
C34_Witness ==
    /\ app.program = "GraphStateStoreTest"
    /\ app.consumerStateSnapshot # 0
    /\ app.consumerStateSnapshot \notin Range(app.mStatesLookbackQueue)
    /\ app.retrieved.mStateVersion = 1
    /\ LastSnapshot.mStateVersion = 4
    /\ app.heap[app.consumerStateSnapshot].mStateVersion = 1
    /\ GetState(app.heap[app.consumerStateSnapshot], PacketTypeAId)
          # GetState(LastSnapshot, PacketTypeAId)


\* handle h was armed and cancelled and is armed again, and the timer of the
\* new arming has not run out: an expiry notification for h that arrives now
\* can only belong to the cancelled arming
RearmedAfterCancel(h) ==
    /\ mTimeoutDispatchers[h + 1] # NULL
    /\ \E i \in DOMAIN armings :
          /\ armings[i].handle = h
          /\ armings[i].fate = "cancelled"
    /\ mTimerDeadlines[h] > mElapsedTime

\* C36 (as stated): a value armed on handle h is pushed only by the expiry of
\* that arming's own timer: when h was armed, cancelled and armed again, an
\* expiry notification that arrives before the new timer has run out
\* dispatches nothing and leaves the new arming pending.
C36_LateExpiryDoesNotDispatchNewArming ==
    [][ \A h \in Handles :
           (FireMockTimeout(h) /\ RearmedAfterCancel(h)) =>
              /\ inserted' = inserted
              /\ mInputQueue' = mInputQueue
              /\ mTimeoutDispatchers' = mTimeoutDispatchers
      ]_vars

\* C36 (amended): TimeoutExpired(h) asks only whether h's slot holds a value.
\* When h was armed, cancelled and armed again, an expiry notification that
\* arrives before the new timer has run out enqueues the value of the new
\* arming at once and empties the slot, while the new timer keeps running;
\* the value is enqueued once, so the new timer's own expiry finds the slot
\* empty and enqueues nothing.  Only on an empty slot is a notification
\* skipped.
C36_LateExpiryDispatchesNewArming ==
    /\ [][ \A h \in Handles :
              (FireMockTimeout(h) /\ RearmedAfterCancel(h)) =>
                 /\ mInputQueue' = Append(mInputQueue,
                                          [topic |-> mTimeoutDispatchers[h + 1].topic,
                                           data |-> mTimeoutDispatchers[h + 1].data])
                 /\ mTimeoutDispatchers'[h + 1] = NULL
                 /\ mTimerDeadlines'[h] = mTimerDeadlines[h]
                 /\ mTimerDeadlines'[h] > mElapsedTime'
         ]_vars
    /\ [][ \A h \in Handles :
              (ExpiryOf(h) /\ mTimeoutDispatchers[h + 1] = NULL) =>
                 /\ inserted' = inserted
                 /\ mInputQueue' = mInputQueue
         ]_vars
    /\ [](\A i \in DOMAIN armings :
             Cardinality({k \in DOMAIN inserted : inserted[k].data = armings[i].data}) <= 1)

\* C36 witness: a handle was armed, cancelled and armed again, an expiry
\* notification arrived before the new timer had run out and the value of the
\* new arming went into the input queue; then the new timer ran out itself
\* and nothing more was enqueued
C36_Witness ==
    /\ Len(armings) = 2
    /\ armings[1].handle = armings[2].handle
    /\ armings[1].fate = "cancelled"
    /\ armings[2].fate = "fired"
    /\ app.call = "FireNextTimeout"
    /\ app.handle = armings[2].handle
    /\ mElapsedTime = 2
    /\ mInputQueue = <<[topic |-> armings[2].topic, data |-> armings[2].data]>>
    /\ Len(inserted) = 1

\* C36 witness: the late notification has just dispatched the value of the
\* new arming, whose timer is still running
C36_WitnessTimerStillRunning ==
    /\ Len(armings) = 2
    /\ armings[1].handle = armings[2].handle
    /\ armings[1].fate = "cancelled"
    /\ armings[2].fate = "fired"
    /\ app.call = "TimeoutExpired"
    /\ mTimerDeadlines[armings[2].handle] > mElapsedTime
    /\ mTimerDeadlines[armings[2].handle] # kInvalidMaxOffset
    /\ DataOf(mInputQueue) = {armings[2].data}


\* the vertex list is in a topological order of the immediate edges as they
\* are now: every edge stays inside the list and leads forward in it
VertexOrderIsTopological ==
    \A u \in Range(mVertices) :
       \A k \in DOMAIN mOutEdges[u] :
          /\ mOutEdges[u][k] \in Range(mVertices)
          /\ IndexOf(mVertices, u) < IndexOf(mVertices, mOutEdges[u][k])

\* C37: while EvaluateGraph traverses, the vertex list is in a topological
\* order of the graph's current immediate edges and the graph does not need
\* sorting.  Every step that adds a vertex to the list or removes one from it
\* (a detector constructed or destroyed, a topic created on first use) leaves
\* the graph marked as needing sorting, and an EvaluateGraph call on a graph
\* so marked sorts before it traverses or returns the error of the sort
\* without traversing.
C37_TraversalOrderIsTopological ==
    /\ [](pc = "traverse" => VertexOrderIsTopological /\ ~mNeedsSorting)
    /\ [][ Range(mVertices') # Range(mVertices) => mNeedsSorting' ]_vars
    /\ [][ (EvaluateGraph_Begin /\ mNeedsSorting) =>
              LET ts == TopoSortGraph(mVertices, mOutEdges, mState, mNeedsSorting)
              IN IF ts.r = ErrorType_Success
                 THEN /\ pc' = "traverse"
                      /\ mVertices' = ts.vertices
                 ELSE /\ pc' = "idle"
                      /\ ret' = Returned("EvaluateGraph", ts.r)
         ]_vars

\* C37 witness: of the two detectors Splitter and Relay one was constructed
\* with the graph and the other later, behind the topics it publishes to in
\* the vertex list as it then was; the second pass traverses the list in the
\* order In, Splitter, A, Relay, B
C37_Witness ==
    /\ pc = "traverse"
    /\ nOps = 1
    /\ Len(consumed) = 2
    /\ mVertices = <<"In", "Splitter", "A", "Relay", "B">>

\* C37 witness: a detector was destroyed after a pass and the next pass
\* traverses what is left
C37_WitnessDestroyed ==
    /\ pc = "traverse"
    /\ nOps = 1
    /\ Len(consumed) = 2
    /\ Range(mVertices) \cap Detectors = {"Relay"}
    /\ "In" \in Range(mVertices)
    /\ mCurrentValues["A"] # <<>>
    /\ mCurrentValues["In"] # <<>>


\* the values left in the topics by an earlier pass: what a topic holds that
\* was not published to it in the current / last pass
StaleValues(t) == Range(mCurrentValues[t]) \ Range(pubLog[t])

\* C38: every Evaluate(v) call made during a pass has v published to the
\* call's topic during that same pass (by the input dispatch or by a
\* detector), and the call is made while the topic is Done; a value a topic
\* still holds from an earlier pass is given to no subscriber, and a topic
\* that holds such a value when a detector is evaluated is not Done.
C38_NoValueOfAnEarlierPassIsDelivered ==
    /\ [](\A i \in DOMAIN evalLog :
             evalLog[i].cb = "Evaluate" =>
                /\ evalLog[i].data \in Range(pubLog[evalLog[i].topic])
                /\ evalLog[i].data \notin DataOf(consumed) \ DataOf(dequeued))
    /\ [][ \A i \in (Len(evalLog) + 1)..Len(evalLog') :
              evalLog'[i].cb = "Evaluate" =>
                 /\ mState[evalLog'[i].topic] = kVertexDone
                 /\ evalLog'[i].data \notin StaleValues(evalLog'[i].topic)
                 /\ \A t \in Topics : StaleValues(t) # {} => mState[t] # kVertexDone
         ]_vars

\* C38 witness: the first pass gave Rev the value pushed to B; the second
\* pass, begun while B still held that value, has given Rev the value pushed
\* to A and nothing else
C38_Witness ==
    /\ AfterPass
    /\ InGraph("Rev")
    /\ Len(consumed) = 2
    /\ consumed[1].topic = "B"
    /\ consumed[2].topic = "A"
    /\ EvalsOf("Rev", "A") = <<consumed[2].data>>
    /\ EvalsOf("Rev", "B") = <<>>

\* C38 witness: the second pass has begun and a topic whose subscriber will
\* be evaluated in it still holds the value of the first pass
C38_WitnessStillStored ==
    /\ pc = "traverse"
    /\ it = 1
    /\ InGraph("Rev")
    /\ consumed = <<[topic |-> "B", data |-> 1], [topic |-> "A", data |-> 2]>>
    /\ mCurrentValues["B"] = <<1>>
    /\ mState["B"] = kVertexClear
    /\ mCurrentValues["A"] = <<2>>


\* the topic state types with an entry in the input queue
PendingTypes == {mInputQueue[i].topic : i \in DOMAIN mInputQueue}

\* the step ends the program in the DG_ASSERT of the enqueue made by src and
\* leaves the queue as it was
EnqueueAsserts(src) ==
    /\ pc' = "aborted"
    /\ app'.aborted = src
    /\ mInputQueue' = mInputQueue
    /\ inserted' = inserted

\* the step is Lag's ProcessVertex with a LoopTopicState to pass on
LagEvaluates ==
    /\ BuildTraverseVertices_Step
    /\ mVertices[it] = "Lag"
    /\ mState["Lag"] = kVertexProcessing

\* C35: in the bounded build the input queue holds at most one entry per
\* topic state type, and the busy nodes are those of the queued types.  An
\* enqueue of a type that has an entry pending, whether made by PushData, by
\* the expiry of a timeout or by a future publication during a pass, fails
\* the assertion of Enqueue: the program ends there, the queue and the
\* pending entry are as they were, and nothing runs afterwards.
C35_OnePendingPerTypeOrAssert ==
    /\ [](app.LITE =>
            /\ \A t \in LagTopics :
                  Cardinality({i \in DOMAIN mInputQueue : mInputQueue[i].topic = t}) <= 1
            /\ app.queueBusy = PendingTypes)
    /\ [][ app.LITE =>
              /\ (BuildPushData("StartTopicState") /\ "StartTopicState" \in PendingTypes)
                    => EnqueueAsserts("push")
              /\ \A h \in BuildHandles :
                    (/\ BuildTimeoutExpired(h)
                     /\ mTimeoutDispatchers[h + 1] # NULL
                     /\ mTimeoutDispatchers[h + 1].topic \in PendingTypes)
                       => /\ EnqueueAsserts("timer")
                          /\ mTimeoutDispatchers' = mTimeoutDispatchers
              /\ (LagEvaluates /\ "Lagged" \in PendingTypes) => EnqueueAsserts("future")
         ]_vars
    /\ [][pc # "aborted"]_vars

\* C35 witness: a future publication of Lagged met a pending Lagged (the
\* loop was started a second time while it ran) and the assertion failed
C35_Witness ==
    /\ app.LITE
    /\ pc = "aborted"
    /\ app.aborted = "future"
    /\ "Lagged" \in PendingTypes
    /\ Len(Pushes) = 2

\* C35 witness: a second PushData<StartTopicState> before any pass
C35_WitnessPush ==
    /\ app.LITE
    /\ pc = "aborted"
    /\ app.aborted = "push"
    /\ consumed = <<>>
    /\ mInputQueue = <<[topic |-> "StartTopicState", data |-> 0]>>

\* C35 witness: a timeout of StartTopicState expired while the pushed
\* StartTopicState was pending
C35_WitnessTimer ==
    /\ app.LITE
    /\ pc = "aborted"
    /\ app.aborted = "timer"
    /\ mInputQueue = <<[topic |-> "StartTopicState", data |-> 0]>>
    /\ \E h \in BuildHandles : mTimeoutDispatchers[h + 1].topic = "StartTopicState"

\* C39: in the bounded build, in a pass whose dequeued input was a Lagged,
\* Lag's future publication of a new Lagged passes the assertion of Enqueue
\* and is queued behind what is pending; and in the feedback loop started
\* once (Test_FeedbackLoop) no future publication ever fails the assertion,
\* however many passes run.
C39_FuturePublishAfterDequeue ==
    /\ [][ (/\ app.LITE
            /\ LagEvaluates
            /\ dequeued # <<>>
            /\ dequeued[1].topic = "Lagged") =>
              /\ pc' = "traverse"
              /\ app'.aborted = "none"
              /\ Len(mInputQueue') = Len(mInputQueue) + 1
              /\ mInputQueue'[Len(mInputQueue')] =
                    [topic |-> "Lagged",
                     data |-> Lagged(mCurrentValues["LoopTopicState"][1])]
              /\ "Lagged" \in app'.queueBusy
         ]_vars
    /\ []((app.LITE /\ Len(Pushes) <= 1 /\ armings = <<>>) => app.aborted # "future")

\* C39 witness: the bounded build has run the loop to its end: the start and
\* four Lagged values were dequeued, one per pass, each Lagged republished
\* in the pass that dequeued the one before
C39_Witness ==
    /\ app.LITE
    /\ AfterPass
    /\ armings = <<>>
    /\ Len(Pushes) = 1
    /\ Len(consumed) = 5
    /\ \A i \in 2..5 : consumed[i] = [topic |-> "Lagged", data |-> Lagged(i - 1)]
    /\ detectorMState["LoopTestDetector"] = 5
    /\ mInputQueue = <<>>

\* C39 witness: in the middle of the loop, a pass that dequeued Lagged(2) has
\* queued Lagged(3)
C39_WitnessMidLoop ==
    /\ app.LITE
    /\ pc = "traverse"
    /\ dequeued = <<[topic |-> "Lagged", data |-> Lagged(2)]>>
    /\ mInputQueue = <<[topic |-> "Lagged", data |-> Lagged(3)]>>

\* a timeout of type t is scheduled on handle h2 while one of type t1 is
\* pending on the other handle h1 and h2 is free
SecondTimeout(t1, h1, t, h2) ==
    /\ h1 # h2
    /\ BuildScheduleTimeout(t, h2)
    /\ mTimeoutDispatchers[h1 + 1] # NULL
    /\ mTimeoutDispatchers[h1 + 1].topic = t1
    /\ mTimeoutDispatchers[h2 + 1] = NULL

\* the ScheduleTimeout of the step returns with its value stored on h2 and
\* the other handle untouched
ScheduledOn(t, h1, h2) ==
    /\ pc' = "idle"
    /\ app'.aborted = "none"
    /\ mTimeoutDispatchers'[h2 + 1] = [topic |-> t, data |-> nextVal]
    /\ mTimeoutDispatchers'[h1 + 1] = mTimeoutDispatchers[h1 + 1]

\* C40 (as stated): in either build, scheduling a timeout of type T on a
\* free handle h2 while a timeout of the same type T is pending on another
\* handle h1 succeeds and leaves both pending.
C40_SameTypeOnTwoHandles ==
    [][ \A t \in TimeoutTypes, h1, h2 \in BuildHandles :
           SecondTimeout(t, h1, t, h2) => ScheduledOn(t, h1, h2)
      ]_vars

\* C40 (amended): timeouts on two handles are independent in the full build
\* whatever their types, and in the bounded build when their types differ:
\* the second ScheduleTimeout succeeds and each value is enqueued once, when
\* its own handle expires.  In the bounded build a second timeout of a type
\* that is pending on another handle fails the assertion of the allocator
\* (one Dispatcher<T> per T), the program ends and nothing is scheduled.
C40_SameTypeOnTwoHandlesFullBuildOnly ==
    /\ [][ \A t1, t \in TimeoutTypes, h1, h2 \in BuildHandles :
              SecondTimeout(t1, h1, t, h2) =>
                 IF app.LITE /\ t1 = t
                 THEN /\ pc' = "aborted"
                      /\ app'.aborted = "StaticTypedAllocator::New"
                      /\ mTimeoutDispatchers' = mTimeoutDispatchers
                 ELSE ScheduledOn(t, h1, h2)
         ]_vars
    /\ [](\A i \in DOMAIN armings :
             Cardinality({k \in DOMAIN inserted :
                             /\ inserted[k].src = "timer"
                             /\ inserted[k].topic = armings[i].topic
                             /\ inserted[k].data = armings[i].data})
                = IF armings[i].fate = "fired" THEN 1 ELSE 0)
    /\ [](app.LITE =>
             \A h1, h2 \in BuildHandles :
                (/\ h1 # h2
                 /\ mTimeoutDispatchers[h1 + 1] # NULL
                 /\ mTimeoutDispatchers[h2 + 1] # NULL) =>
                   mTimeoutDispatchers[h1 + 1].topic # mTimeoutDispatchers[h2 + 1].topic)

\* C40 witness: the bounded build has failed the allocator's assertion on
\* the second timeout of StartTopicState; the first is still pending
C40_Witness ==
    /\ app.LITE
    /\ pc = "aborted"
    /\ app.aborted = "StaticTypedAllocator::New"
    /\ Len(armings) = 2
    /\ armings[1].handle # armings[2].handle
    /\ armings[1].topic = armings[2].topic
    /\ armings[1].fate = "pending"
    /\ armings[2].fate = "aborted"
    /\ mTimeoutDispatchers[armings[2].handle + 1] = NULL

\* C40 witness: the full build has scheduled two timeouts of StartTopicState
\* on its two handles, both have expired and both values were dequeued
C40_WitnessFullBuild ==
    /\ ~app.LITE
    /\ AfterPass
    /\ Len(armings) = 2
    /\ armings[1].handle # armings[2].handle
    /\ armings[1].topic = "StartTopicState"
    /\ armings[2].topic = "StartTopicState"
    /\ armings[1].fate = "fired"
    /\ armings[2].fate = "fired"
    /\ Len(consumed) = 2
    /\ {consumed[1], consumed[2]} =
          {[topic |-> "StartTopicState", data |-> 1], [topic |-> "StartTopicState", data |-> 2]}

\* C40 witness: the bounded build has scheduled timeouts of two types on its
\* two handles, both pending at once, and both values were dequeued
C40_WitnessTwoTypes ==
    /\ app.LITE
    /\ pc = "idle"
    /\ Len(armings) = 2
    /\ armings[1].handle # armings[2].handle
    /\ armings[1].topic # armings[2].topic
    /\ armings[1].fate = "fired"
    /\ armings[2].fate = "fired"
    /\ \A i \in 1..2 : [topic |-> armings[i].topic, data |-> armings[i].data] \in Range(consumed)

====
